---- MODULE Spec2Model ----
(***************************************************************************)
(* A model of my/behavior.py: the session matcher                         *)
(* (search_for_behavior_and_video_files, parse_video_filenames) and the   *)
(* clock aligner (generate_mplayer_guesses_and_sync,                      *)
(* generate_test_times_for_user, index_of_biggest_diffs_across_arr,       *)
(* mask_by_buffer_from_end), parse_behavior_filenames and                 *)
(* cached_dump_frames_at_retraction_times; and of my/video.py: get_frame, *)
(* frame_dump, process_chunks_of_video, get_video_aspect and              *)
(* get_video_duration.                                                    *)
(*                                                                         *)
(* Numbers.  Times and polynomial coefficients are floats in the source;  *)
(* here they are exact rationals <<n, d>> with d > 0 in lowest terms.     *)
(* NaN (numpy.nan, pandas' "undefined") is <<0, 0>>.  Every comparison    *)
(* with NaN is false, and arithmetic on NaN gives NaN, as in numpy.       *)
(*                                                                         *)
(* Series.  A pandas Series with the default integer index is a sequence; *)
(* the label of an entry is its position (the source's label plus one).   *)
(* A missing label (idxmax of an all-NaN series gives nan) is 0.          *)
(***************************************************************************)
EXTENDS Integers, Sequences, FiniteSets, TLC

VARIABLES
    \* mask_by_buffer_from_end(ser, end_time, buffer): one call
    mask_in,        \* the series as passed
    mask_ser,       \* the caller's series object (changed in place)
    mask_end_time,
    mask_buffer,
    mask_pc,
    \* generate_test_times_for_user(times, max_time, initial_guess, N): one call
    tt_times,       \* argument times
    tt_max_time,
    tt_guess,       \* argument initial_guess, <<slope, intercept>>
    tt_N,
    tt_masked,      \* local times after polyval and masking
    tt_idxs,        \* test_idxs
    tt_test,        \* returned test_times
    tt_next,        \* returned test_next_times
    tt_pc,
    \* generate_mplayer_guesses_and_sync(metadata, user_results, guess, N): one call
    sy_retract,     \* trials_info['time_retract']
    sy_vvsb,        \* metadata['guess_vvsb_start'], in seconds
    sy_duration,    \* metadata['duration_video'], in seconds
    sy_guess,       \* argument guess, <<slope, intercept>>
    sy_N,
    sy_user,        \* argument user_results: [given, vals]; None is not given
    sy_masked,      \* the guessed times after masking (times of the callee)
    sy_test,        \* test_times
    sy_next,        \* test_next_times
    sy_printed,     \* the printed mplayer commands: [ss, guess, next]
    sy_new_fit,     \* new_fit, <<>> while not computed
    sy_resids,      \* resids, <<>> while not computed
    sy_combined,    \* combined_fit, coefficients highest first, <<>> while not computed
    sy_warned,      \* the length warning was printed
    sy_pc,
    \* two corrections composed in both orders (line 139, twice)
    cp_A, cp_B,     \* <<slope, intercept>>
    cp_AB,          \* A first, then B: B evaluated at A's output
    cp_BA,          \* B first, then A
    cp_pc,
    \* search_for_behavior_and_video_files(behavior_dir, video_dir, cached_video_files_df)
    sr_video_files,     \* glob of video_dir: the files, each with what ffprobe says of it
    sr_cache,           \* cached_video_files_df: [given, rows]; None is not given
    sr_behavior,        \* behavior_files_df, one row per behavior file
    sr_video_df,        \* video_files_df
    sr_probed,          \* the names of the files ffprobe was run on
    sr_bidx,            \* the row the loop of line 202 is at
    sr_error,           \* <<function, exception>> once the call has raised
    sr_pc,
    \* parse_behavior_filenames(all_behavior_files, clean): one call
    pb_files,           \* all_behavior_files
    pb_clean,
    pb_df,              \* behavior_files_df
    pb_warned,          \* "warning: no behavior files found" was printed
    pb_pc,
    \* one call of a function of video.py
    v_op,               \* the function called
    v_args,             \* its arguments
    v_probe,            \* what ffprobe prints for the file: [invalid, sizes, duration]
    v_stream,           \* the bytes ffmpeg has to write to its stdout
    v_status,           \* the exit status of the ffmpeg run by check_output
    v_size,             \* <<width, height>> in use, <<>> while unknown
    v_offset,           \* the bytes read from the pipe so far
    v_frames_read,
    v_res_l,            \* the chunks; a frame is its position in the stream
    v_out_of_frames,
    v_live,             \* the subprocesses started and not yet waited for
    v_log,              \* the calls made on subprocesses, in order
    v_printed,          \* the warnings printed, in order
    v_exc,              \* the exception on its way to the caller, "" for none
    v_result,           \* the value returned
    v_pc,
    \* runs of cached_dump_frames_at_retraction_times over one frame_dir
    cd_fs,              \* the directories that exist
    cd_run,             \* runs started so far
    cd_rows,            \* rows of the run: the behave_filename of each
    cd_idx,             \* the row the loop of line 31 is at
    cd_events,          \* for each row reached: [run, name, existed, dumped, made]
    cd_pc

maskVars == <<mask_in, mask_ser, mask_end_time, mask_buffer, mask_pc>>

ttVars == <<tt_times, tt_max_time, tt_guess, tt_N, tt_masked, tt_idxs,
            tt_test, tt_next, tt_pc>>

syIn == <<sy_retract, sy_vvsb, sy_duration, sy_guess, sy_N, sy_user>>

syVars == <<syIn, sy_masked, sy_test, sy_next, sy_printed, sy_new_fit,
            sy_resids, sy_combined, sy_warned, sy_pc>>

cpVars == <<cp_A, cp_B, cp_AB, cp_BA, cp_pc>>

srVars == <<sr_video_files, sr_cache, sr_behavior, sr_video_df, sr_probed,
            sr_bidx, sr_error, sr_pc>>

pbVars == <<pb_files, pb_clean, pb_df, pb_warned, pb_pc>>

vidVars == <<v_op, v_args, v_probe, v_stream, v_status, v_size, v_offset,
             v_frames_read, v_res_l, v_out_of_frames, v_live, v_log, v_printed,
             v_exc, v_result, v_pc>>

cdVars == <<cd_fs, cd_run, cd_rows, cd_idx, cd_events, cd_pc>>

laterVars == <<pbVars, vidVars, cdVars>>

vars == <<maskVars, ttVars, syVars, cpVars, srVars, laterVars>>

-----------------------------------------------------------------------------
(* Bounds of the model *)

\* longest series handed to mask_by_buffer_from_end / generate_test_times_for_user
MaxSeries == 4

\* largest number N of test times asked of generate_test_times_for_user
MaxCuts == 2

\* largest N, and longest user_results, of generate_mplayer_guesses_and_sync
MaxPoints == 3

\* most files in video_dir
MaxVideos == 3

\* most behavior files
MaxBehavior == 2

\* most files handed to parse_behavior_filenames
MaxFiles == 3

\* most whole frames in a video stream
MaxFrames == 3

\* largest frame_chunk_sz
MaxChunk == 2

\* most runs of cached_dump_frames_at_retraction_times, and most rows of a run
MaxRuns == 3

MaxRows == 2

-----------------------------------------------------------------------------
(* Exact rational arithmetic standing for float arithmetic *)

RECURSIVE Gcd(_, _)
Gcd(a, b) == IF b = 0 THEN a ELSE Gcd(b, a % b)

Abs(n) == IF n < 0 THEN -n ELSE n

NaN == <<0, 0>>

IsNaN(x) == x[2] = 0

\* n/d in lowest terms with a positive denominator
Frac(n, d) ==
    LET s == IF d < 0 THEN -1 ELSE 1
        g == Gcd(Abs(n), Abs(d))
    IN  IF d = 0 THEN NaN ELSE <<(s * n) \div g, (s * d) \div g>>

R(n) == <<n, 1>>

RAdd(x, y) == IF IsNaN(x) \/ IsNaN(y) THEN NaN
              ELSE Frac(x[1] * y[2] + y[1] * x[2], x[2] * y[2])

RSub(x, y) == IF IsNaN(x) \/ IsNaN(y) THEN NaN
              ELSE Frac(x[1] * y[2] - y[1] * x[2], x[2] * y[2])

RMul(x, y) == IF IsNaN(x) \/ IsNaN(y) THEN NaN
              ELSE Frac(x[1] * y[1], x[2] * y[2])

RDiv(x, y) == IF IsNaN(x) \/ IsNaN(y) THEN NaN
              ELSE Frac(x[1] * y[2], x[2] * y[1])

\* x < y, false when either is NaN
RLt(x, y) == ~IsNaN(x) /\ ~IsNaN(y) /\ x[1] * y[2] < y[1] * x[2]

RLe(x, y) == ~IsNaN(x) /\ ~IsNaN(y) /\ x[1] * y[2] <= y[1] * x[2]

-----------------------------------------------------------------------------
(* mask_by_buffer_from_end *)

\* ser < buffer, the boolean mask of the first assignment
BelowBufferOff(v, buffer) == RLe(v, buffer)
BelowBuffer(v, buffer) == RLt(v, buffer)

\* ser > end_time - buffer, the boolean mask of the second assignment
AboveEnd(v, end_time, buffer) == RLt(RSub(end_time, buffer), v)

\* ser[mask] = np.nan, twice, on the caller's object
mask_by_buffer_from_end(s, end_time, buffer) ==
    LET s1 == [i \in 1..Len(s) |->
                 IF BelowBuffer(s[i], buffer) THEN NaN ELSE s[i]]
    IN  [i \in 1..Len(s) |->
           IF AboveEnd(s1[i], end_time, buffer) THEN NaN ELSE s1[i]]

-----------------------------------------------------------------------------
(* index_of_biggest_diffs_across_arr and generate_test_times_for_user *)

\* buffer=10 of the masking call in dump_frames_at_retraction_time
DumpBuffer == 10

\* default of generate_test_times_for_user's buffer parameter, which
\* generate_mplayer_guesses_and_sync leaves alone
TestTimesBufferAsDump == DumpBuffer

TestTimesBuffer == 30

\* the label idxmax gives for an all-NaN series (nan)
Missing == 0

SetMin(S) == CHOOSE m \in S : \A x \in S : m <= x

\* np.polyval(p, x) for a first-degree p = <<slope, intercept>> (Horner)
polyval(p, x) == RAdd(RMul(RAdd(RMul(R(0), x), p[1]), x), p[2])

\* ser.dropna().index: the labels of the defined entries, in order
dropna(s) == SelectSeq([i \in 1..Len(s) |-> i], LAMBDA i : ~IsNaN(s[i]))

\* Series.argmax (idxmax, skipna) of the series with the given labels and
\* values: the label of the first largest defined value, or Missing when no
\* value is defined (an empty series raises; the callers see to that)
idxmax(labels, vals) ==
    LET best == {i \in 1..Len(labels) :
                    /\ ~IsNaN(vals[i])
                    /\ \A j \in 1..Len(labels) :
                          IsNaN(vals[j]) \/ RLe(vals[j], vals[i])}
    IN  IF best = {} THEN Missing ELSE labels[SetMin(best)]

\* ser.index[len(ser) * ncut / ncuts_total] for ncut < ncuts_total, then
\* ser.index[-1]; idx is the index of the series without its NaNs
CutLabel(idx, ncuts_total, ncut) ==
    IF ncut < ncuts_total
    THEN idx[(Len(idx) * ncut) \div ncuts_total + 1]
    ELSE idx[Len(idx)]

\* ser.ix[cuts[ncut]:cuts[ncut+1]]: a label slice, both ends included
SubSer(idx, ncuts_total, ncut) ==
    SelectSeq(idx, LAMBDA l : /\ CutLabel(idx, ncuts_total, ncut) <= l
                              /\ l <= CutLabel(idx, ncuts_total, ncut + 1))

\* subser.diff().shift(-1) at position i of subser: next minus this, NaN at
\* the last position
DiffShift(s, sub, i) ==
    IF i < Len(sub) THEN RSub(s[sub[i + 1]], s[sub[i]]) ELSE NaN

\* subser.diff().shift(-1).argmax() of one segment
SegmentPick(s, sub) ==
    idxmax(sub, [i \in 1..Len(sub) |-> DiffShift(s, sub, i)])

\* the series must hold a defined entry: ser.index[0] raises IndexError on
\* an empty index
index_of_biggest_diffs_across_arr(s, ncuts_total) ==
    LET idx == dropna(s)
    IN  [n \in 1..ncuts_total |->
            SegmentPick(s, SubSer(idx, ncuts_total, n - 1))]

\* np.polyval(initial_guess, times) then mask_by_buffer_from_end
GuessAndMask(times, max_time, initial_guess, buffer) ==
    mask_by_buffer_from_end(
        [i \in 1..Len(times) |-> polyval(initial_guess, times[i])],
        max_time, buffer)

\* times.ix[test_idxs]: a missing label gives NaN
TakeIx(s, idxs) ==
    [n \in 1..Len(idxs) |-> IF idxs[n] = Missing THEN NaN ELSE s[idxs[n]]]

\* times.shift(-1).ix[test_idxs]: the entry after the label in the whole
\* series, NaN after the last
TakeNextIx(s, idxs) ==
    [n \in 1..Len(idxs) |->
        IF idxs[n] = Missing \/ idxs[n] = Len(s) THEN NaN ELSE s[idxs[n] + 1]]

-----------------------------------------------------------------------------
(* generate_mplayer_guesses_and_sync: polyfit, poly1d, the printed commands *)

\* default of the pre_time parameter
PreTime == 10

\* int(x) of a defined number: truncation toward zero
IntOf(x) == IF x[1] >= 0 THEN x[1] \div x[2] ELSE -((-x[1]) \div x[2])

RECURSIVE SumSeq(_)
SumSeq(s) == IF Len(s) = 0 THEN R(0) ELSE RAdd(s[1], SumSeq(Tail(s)))

\* np.polyfit(x, y, deg=1) for x and y of one length: the least-squares line
\* <<slope, intercept>>.  When the xs are all one value c (a single point
\* too) the system has rank 1 and lstsq gives the minimum-norm solution of
\* the column-scaled system: slope mean(y)/(2c), intercept mean(y)/2.
polyfit(x, y) ==
    LET n == R(Len(x))
        Sx == SumSeq(x)
        Sy == SumSeq(y)
        Sxx == SumSeq([i \in 1..Len(x) |-> RMul(x[i], x[i])])
        Sxy == SumSeq([i \in 1..Len(x) |-> RMul(x[i], y[i])])
        D == RSub(RMul(n, Sxx), RMul(Sx, Sx))
        slope == RDiv(RSub(RMul(n, Sxy), RMul(Sx, Sy)), D)
        ybar == RDiv(Sy, n)
    IN  IF D # R(0)
        THEN <<slope, RDiv(RSub(Sy, RMul(slope, Sx)), n)>>
        ELSE <<RDiv(ybar, RMul(R(2), x[1])), RDiv(ybar, R(2))>>

\* resids = np.polyval(new_fit, test_times.values) - user_results
Resids(fit, x, y) ==
    [i \in 1..Len(x) |-> RSub(polyval(fit, x[i]), y[i])]

\* np.poly1d(c): the coefficients, highest power first, without leading
\* zeros (one coefficient is always kept)
RECURSIVE poly1d(_)
poly1d(c) ==
    IF Len(c) > 1 /\ c[1] = R(0) THEN poly1d(Tail(c)) ELSE c

\* the coefficient of t^k in c, zero beyond its degree
Coef(c, k) == IF 0 <= k /\ k < Len(c) THEN c[Len(c) - k] ELSE R(0)

\* poly1d + poly1d
PolyAdd(a, b) ==
    LET n == IF Len(a) > Len(b) THEN Len(a) ELSE Len(b)
    IN  poly1d([i \in 1..n |-> RAdd(Coef(a, n - i), Coef(b, n - i))])

\* poly1d * poly1d
PolyMul(a, b) ==
    LET n == Len(a) + Len(b) - 1
    IN  poly1d([i \in 1..n |->
            SumSeq([j \in 1..n |->
                RMul(Coef(a, j - 1), Coef(b, (n - i) - (j - 1)))])])

\* np.polyval(p, x) with x a poly1d: Horner's rule y = y * x + p[i] from
\* y = 0, in poly1d arithmetic
RECURSIVE Horner(_, _, _)
Horner(p, x, y) ==
    IF Len(p) = 0 THEN y
    ELSE Horner(Tail(p), x, PolyAdd(PolyMul(y, x), <<p[1]>>))

\* combined_fit = np.polyval(np.poly1d(new_fit), np.poly1d(initial_guess))
CompositeReversed(new_fit, initial_guess) ==
    Horner(poly1d(initial_guess), poly1d(new_fit), <<R(0)>>)
Composite(new_fit, initial_guess) ==
    Horner(poly1d(new_fit), poly1d(initial_guess), <<R(0)>>)

\* len(user_results) != N
WrongLengthOnlyShort(user_results, N) == Len(user_results) < N
WrongLength(user_results, N) == Len(user_results) # N

-----------------------------------------------------------------------------
(* parse_video_filenames and the matching loop of
   search_for_behavior_and_video_files.

   A video file is [stem, date, clock, probe]: its name is
   <stem>.<date><clock>.mp4, and probe is the h, m, s of the "Duration:"
   that ffprobe prints for it, or <<>> when ffprobe prints "Invalid data
   found when processing input".  A file whose name does not match the
   pattern has date 0.  A datetime is a number of seconds, NaT is NaN.
   A DataFrame is [cols, rows]: cols is "named" (the columns filename, rig,
   dt_end, dt_start, duration), "numbered" (columns 0, 1, ...: what
   pandas.concat(axis=1, ignore_index=True) gives) or "none"
   (DataFrame.from_records([])); the label of a row is its position. *)

\* best_video_index of a behavior file without a video
NoMatch == -1

\* datetime.strptime(date_s, '%Y%m%d%H%M%S'), in seconds since the start of
\* the month (the dates of the model lie in one month)
Strptime(date, clock) ==
    R((((date % 100) - 1) * 86400) + ((clock \div 10000) * 3600)
        + (((clock \div 100) % 100) * 60) + (clock % 100))

\* the timedelta of the probed "Duration: HH:MM:SS.ff"
Timedelta(probe) == R(probe[1] * 3600 + probe[2] * 60 + probe[3])

FileName(f) == <<f.stem, f.date, f.clock>>

\* re.match(pattern, ...) is not None
MatchesPattern(f) == f.date # 0

\* video_start_time = video_end_time - video_duration
VideoStart(video_end_time, video_duration) == RSub(video_end_time, video_duration)

\* video_end_time, when the name is taken for the start of the recording
VideoEndAfterStamp(f) ==
    RAdd(Strptime(f.date, f.clock),
         IF f.probe = <<>> THEN R(0) ELSE Timedelta(f.probe))
VideoEnd(f) == Strptime(f.date, f.clock)

\* the record appended for a file: all of it, or what is known when ffprobe
\* found invalid data
VideoRecord(f) ==
    IF f.probe = <<>>
    THEN [filename |-> FileName(f), rig |-> f.stem, dt_end |-> VideoEnd(f),
          dt_start |-> NaN, duration |-> NaN]
    ELSE [filename |-> FileName(f), rig |-> f.stem, dt_end |-> VideoEnd(f),
          dt_start |-> VideoStart(VideoEnd(f), Timedelta(f.probe)),
          duration |-> Timedelta(f.probe)]

NoFrame == [cols |-> "none", rows |-> <<>>]

\* pandas.DataFrame.from_records(rec_l)
FromRecords(rec_l) ==
    IF rec_l = <<>> THEN NoFrame ELSE [cols |-> "named", rows |-> rec_l]

\* pandas.concat([resdf, cached], axis=1, ignore_index=True): the rows of the
\* two frames side by side by label, the columns renumbered
ConcatAxis1(rec_l, cached) ==
    LET n == IF Len(rec_l) > Len(cached) THEN Len(rec_l) ELSE Len(cached)
    IN  [cols |-> "numbered",
         rows |-> [i \in 1..n |->
                    <<IF i <= Len(rec_l) THEN <<rec_l[i]>> ELSE <<>>,
                      IF i <= Len(cached) THEN <<cached[i]>> ELSE <<>>>>]]

Names(files) == {FileName(files[i]) : i \in 1..Len(files)}

CachedNames(cache) == {cache.rows[i].filename : i \in 1..Len(cache.rows)}

\* the files the loop of line 308 probes: not in the cache, name matching
ToProbe(video_filenames, cache) ==
    SelectSeq(video_filenames,
              LAMBDA f : FileName(f) \notin CachedNames(cache) /\ MatchesPattern(f))

\* the error check of lines 299-300: a cache is given and not every
\* filename in it is in video_filenames
CacheCheckReversed(video_filenames, cache) ==
    cache.given /\ ~(Names(video_filenames) \subseteq CachedNames(cache))
CacheCheck(video_filenames, cache) ==
    cache.given /\ ~(CachedNames(cache) \subseteq Names(video_filenames))

\* parse_video_filenames(video_filenames, cached_video_files_df):
\* [raised, df, probed]
parse_video_filenames(video_filenames, cache) ==
    IF CacheCheck(video_filenames, cache)
    THEN [raised |-> "ValueError", df |-> NoFrame, probed |-> <<>>]
    ELSE IF ~cache.given /\ video_filenames # <<>>
    THEN \* line 309: cached_video_files_df.filename of None
         [raised |-> "AttributeError", df |-> NoFrame, probed |-> <<>>]
    ELSE LET todo == ToProbe(video_filenames, cache)
             rec_l == [i \in 1..Len(todo) |-> VideoRecord(todo[i])]
         IN  [raised |-> "",
              probed |-> [i \in 1..Len(todo) |-> FileName(todo[i])],
              df |-> IF ~cache.given THEN FromRecords(rec_l)
                     ELSE IF Len(rec_l) = 0
                          THEN [cols |-> "named", rows |-> cache.rows]
                          ELSE ConcatAxis1(rec_l, cache.rows)]

\* the behavior record of a file <rig>/ardulines.<date><clock>.<mouse> whose
\* modification time reads <mdate><mclock> on the local clock
BehaviorRecord(f) ==
    [rig |-> f.rig, dt_start |-> Strptime(f.date, f.clock),
     dt_end |-> Strptime(f.mdate, f.mclock),
     best_video_index |-> NoMatch, best_video_overlap |-> R(0)]

\* the labels of video_files_df[video_files_df.rig == brow['rig']]
SameRigAny(df, brow) == [i \in 1..Len(df.rows) |-> i]
SameRig(df, brow) ==
    SelectSeq([i \in 1..Len(df.rows) |-> i], LAMBDA i : df.rows[i].rig = brow.rig)

\* latest_start[latest_start < brow['dt_start']] = brow['dt_start']
LatestStart(v, brow) ==
    IF RLt(v.dt_start, brow.dt_start) THEN brow.dt_start ELSE v.dt_start

\* earliest_end[earliest_end > brow['dt_end']] = brow['dt_end']
EarliestEnd(v, brow) ==
    IF RLt(brow.dt_end, v.dt_end) THEN brow.dt_end ELSE v.dt_end

\* overlap = (earliest_end - latest_start)
Overlap(v, brow) == RSub(EarliestEnd(v, brow), LatestStart(v, brow))

\* if max_overlap_sec > 0
StoresFromZero(max_overlap_sec) == RLe(R(0), max_overlap_sec)
Stores(max_overlap_sec) == RLt(R(0), max_overlap_sec)

\* one turn of the loop of line 202 for row brow: [raised, row]
MatchRow(df, brow) ==
    LET labels == SameRig(df, brow)
        overlap == [i \in 1..Len(labels) |-> Overlap(df.rows[labels[i]], brow)]
        vidx_max_overlap == idxmax(labels, overlap)
        max_overlap_sec == Overlap(df.rows[vidx_max_overlap], brow)
    IN  IF df.cols # "named"
        THEN \* video_files_df.rig: the frame has no such column
             [raised |-> "AttributeError", row |-> brow]
        ELSE IF Len(labels) = 0
        THEN \* argmax of an empty series
             [raised |-> "ValueError", row |-> brow]
        ELSE IF vidx_max_overlap = Missing
        THEN \* overlap.ix[nan]
             [raised |-> "KeyError", row |-> brow]
        ELSE IF Stores(max_overlap_sec)
        THEN [raised |-> "",
              row |-> [brow EXCEPT !.best_video_index = vidx_max_overlap,
                                   !.best_video_overlap = max_overlap_sec]]
        ELSE [raised |-> "", row |-> brow]

-----------------------------------------------------------------------------
(* parse_behavior_filenames.  A mouse name is the sequence of its
   characters. *)

\* Known mice
mice ==
    {<<"A", "M", "0", "3">>, <<"A", "M", "0", "5">>, <<"K", "F", "1", "3">>,
     <<"K", "M", "1", "4">>, <<"K", "F", "1", "6">>, <<"K", "F", "1", "7">>,
     <<"K", "F", "1", "8">>, <<"K", "F", "1", "9">>, <<"K", "M", "2", "4">>,
     <<"K", "M", "2", "5">>}

\* aliases, as <<key, value>>
aliases ==
    {<<<<"K", "F", "1", "3", "A">>, <<"K", "F", "1", "3">>>>,
     <<<<"A", "M", "0", "3", "A">>, <<"A", "M", "0", "3">>>>}

\* the lower-case letters of the model's names and their upper case
LowerCase == <<"a", "f", "k", "m", "z">>

UpperCase == <<"A", "F", "K", "M", "Z">>

\* str.upper
upper(mouse) ==
    [i \in 1..Len(mouse) |->
        IF \E k \in 1..Len(LowerCase) : LowerCase[k] = mouse[i]
        THEN UpperCase[CHOOSE k \in 1..Len(LowerCase) : LowerCase[k] = mouse[i]]
        ELSE mouse[i]]

\* Series.replace(aliases) on one value
replace(mouse) ==
    IF \E a \in aliases : a[1] = mouse
    THEN (CHOOSE a \in aliases : a[1] = mouse)[2]
    ELSE mouse

\* lines 270-271: upcase, then apply the aliases
CleanAliasFirst(mouse) == upper(replace(mouse))
Clean(mouse) == replace(upper(mouse))

\* re.match(pattern, os.path.abspath(filename)) is not None
MatchesArdulines(f) == f.base = "ardulines"

\* the record of lines 259-262
ArdulinesRecord(f) ==
    [filename |-> f, rig |-> f.rig, mouse |-> f.mouse,
     dt_start |-> Strptime(f.date, f.clock)]

-----------------------------------------------------------------------------
(* video.py.  A subprocess is named by its program; the bytes of a pipe are
   counted, and a frame read from the pipe is known by its position in the
   stream. *)

\* 'Invalid data found when processing input' in res
InvalidDataIgnored(probe) == FALSE
InvalidData(probe) == probe.invalid

\* get_video_aspect from the ffprobe call on: [raised, size, printed]
get_video_aspect(probe) ==
    IF InvalidData(probe)
    THEN [raised |-> "ValueError", size |-> <<>>, printed |-> <<>>]
    ELSE IF Len(probe.sizes) = 0
    THEN \* width_height_l[0] of an empty list
         [raised |-> "IndexError", size |-> <<>>, printed |-> <<>>]
    ELSE [raised |-> "", size |-> probe.sizes[1],
          printed |-> IF Len(probe.sizes) > 1
                      THEN <<"warning: multiple video streams found, returning first">>
                      ELSE <<>>]

\* get_video_duration from the ffprobe call on: [raised, duration]
get_video_duration(probe) ==
    IF InvalidData(probe)
    THEN [raised |-> "ValueError", duration |-> <<>>]
    ELSE IF probe.duration = <<>>
    THEN \* assert duration_match is not None
         [raised |-> "AssertionError", duration |-> <<>>]
    ELSE [raised |-> "", duration |-> Timedelta(probe.duration)]

\* pipe.stdout.read(size): the number of bytes it returns
Read(stream, offset, size) ==
    IF stream - offset < size THEN stream - offset ELSE size

\* the exceptions that derive from Exception; OutOfFrames derives from
\* BaseException
Exceptions ==
    {"ValueError", "IndexError", "AssertionError", "IOError", "NameError",
     "UnboundLocalError",
     "CalledProcessError"}

\* except OutOfFrames
CaughtAsException(exc) == exc \in Exceptions
Caught(exc) == exc = "OutOfFrames"

\* the finally clause: pipe.terminate(), then pipe.communicate()
FinallyUnlessRaised(log, exc) ==
    IF exc = "" THEN log \o <<<<"terminate", "ffmpeg">>, <<"communicate", "ffmpeg">>>>
    ELSE log
Finally(log, exc) ==
    log \o <<<<"terminate", "ffmpeg">>, <<"communicate", "ffmpeg">>>>

\* lines 201-204
ThisChunk(frames_read, frame_chunk_sz, n_frames) ==
    IF frames_read + frame_chunk_sz > n_frames
    THEN n_frames - frames_read
    ELSE frame_chunk_sz

\* the number of dimensions of the array numpy makes of a chunk's results
Ndim(chunk, func) ==
    IF Len(chunk) = 0 THEN 1 ELSE IF func = "keep" THEN 3 ELSE 1

\* the chunks one after the other
RECURSIVE Flat(_)
Flat(res_l) ==
    IF res_l = <<>> THEN <<>> ELSE Head(res_l) \o Flat(Tail(res_l))

\* lines 240-254: [raised, res, printed]
Finalize(res_l, func, finalize) ==
    IF Len(res_l) = 0
    THEN [raised |-> "", res |-> [type |-> "array", items |-> <<>>],
          printed |-> <<"warning: no data found">>]
    ELSE IF finalize = "concatenate"
    THEN IF \E i, j \in 1..Len(res_l) : Ndim(res_l[i], func) # Ndim(res_l[j], func)
         THEN \* np.concatenate of arrays of different numbers of dimensions
              [raised |-> "ValueError", res |-> <<>>, printed |-> <<>>]
         ELSE [raised |-> "", res |-> [type |-> "array", items |-> Flat(res_l)],
               printed |-> <<>>]
    ELSE IF finalize = "listcomp"
    THEN [raised |-> "", res |-> [type |-> "array", items |-> Flat(res_l)],
          printed |-> <<>>]
    ELSE IF finalize = "list"
    THEN [raised |-> "", res |-> [type |-> "list", items |-> res_l], printed |-> <<>>]
    ELSE [raised |-> "", res |-> [type |-> "list", items |-> res_l],
          printed |-> <<"warning: unknown finalize">>]

-----------------------------------------------------------------------------
(* Inputs *)

\* all sequences over S of length at most n
SeqUpTo(S, n) == UNION {[1..k -> S] : k \in 0..n}

\* event times (seconds into the video) and an undefined entry
TimeSamples == {R(20), R(30), R(40), R(70), R(95), NaN}

EndTimes == {R(50), R(100)}

Buffers == {R(10), R(30)}

\* initial_guess: the identity guess and a rescaling one
Guesses == {<<R(1), R(0)>>, <<Frac(3, 2), R(-5)>>}

\* servo retraction times of a session, in behavior time
RetractSamples == {20, 30, 45, 50, 70, 95}

\* the increasing sequence of the members of a set of integers
RECURSIVE Sorted(_)
Sorted(S) ==
    IF S = {} THEN <<>> ELSE <<R(SetMin(S))>> \o Sorted(S \ {SetMin(S)})

\* video times a user reads off the player
UserSamples == {R(31), R(52)}

\* metadata['guess_vvsb_start'], seconds
StartGuesses == {R(0), R(10)}

\* the files video_dir may hold: three rig recordings, one other file
VideoFileSet ==
    {[stem |-> n[1], date |-> n[2], clock |-> n[3], probe |-> p] :
        n \in {<<"L1", 20190101, 120000>>, <<"L1", 20190101, 130000>>,
                <<"L2", 20190101, 120000>>},
        p \in {<<1, 0, 0>>, <<2, 0, 0>>, <<>>}}
    \cup {[stem |-> "notes", date |-> 0, clock |-> 0, probe |-> <<>>]}

\* a file the cache may name that video_dir does not hold
StaleFile == [stem |-> "L3", date |-> 20190101, clock |-> 120000, probe |-> <<1, 0, 0>>]

\* the behavior files: two sessions on L1, one on L2
BehaviorFileSet ==
    {[rig |-> "L1", date |-> 20190101, clock |-> 120500, mdate |-> 20190101, mclock |-> 130500],
     [rig |-> "L1", date |-> 20190101, clock |-> 111000, mdate |-> 20190101, mclock |-> 115000],
     [rig |-> "L2", date |-> 20190101, clock |-> 120000, mdate |-> 20190101, mclock |-> 124000]}

\* sequences without a repeated member
Distinct(q) == \A i, j \in 1..Len(q) : i # j => q[i] # q[j]

\* the first k members of q
Prefix(q, k) == [i \in 1..k |-> q[i]]

\* the caches a listing may come with: none, the records of its first k
\* rig recordings, or all of them and a record of a file that is gone
Caches(video_filenames) ==
    LET recs == [i \in 1..Len(ToProbe(video_filenames, [given |-> FALSE, rows |-> <<>>]))
                    |-> VideoRecord(ToProbe(video_filenames,
                                            [given |-> FALSE, rows |-> <<>>])[i])]
    IN  {[given |-> FALSE, rows |-> <<>>]}
        \cup {[given |-> TRUE, rows |-> Prefix(recs, k)] : k \in 0..Len(recs)}
        \cup {[given |-> TRUE, rows |-> recs \o <<VideoRecord(StaleFile)>>]}

\* first-degree corrections <<slope, intercept>>: the identity, the default
\* initial_guess of generate_test_times_for_user (.9991, 7.5), a refit
\* (1.02, -0.3), and small ones
Corrections ==
    {<<R(1), R(0)>>, <<Frac(9991, 10000), Frac(15, 2)>>,
     <<Frac(102, 100), Frac(-3, 10)>>, <<R(2), R(0)>>, <<R(3), R(0)>>,
     <<R(2), R(1)>>, <<R(3), R(2)>>, <<R(1), R(5)>>, <<R(2), R(5)>>,
     <<R(-1), R(4)>>}

-----------------------------------------------------------------------------
(* Specification of one call of mask_by_buffer_from_end *)

MaskIdle ==
    /\ mask_in = <<>> /\ mask_ser = <<>> /\ mask_end_time = NaN
    /\ mask_buffer = NaN /\ mask_pc = "idle"

MaskInit ==
    /\ mask_in \in SeqUpTo(TimeSamples, MaxSeries)
    /\ mask_ser = mask_in
    /\ mask_end_time \in EndTimes
    /\ mask_buffer \in Buffers
    /\ mask_pc = "call"

MaskCall ==
    /\ mask_pc = "call"
    /\ mask_ser' = mask_by_buffer_from_end(mask_ser, mask_end_time, mask_buffer)
    /\ mask_pc' = "done"
    /\ UNCHANGED <<mask_in, mask_end_time, mask_buffer>>
    /\ UNCHANGED <<ttVars, syVars, cpVars, srVars, laterVars>>

-----------------------------------------------------------------------------
(* Specification of one call of generate_test_times_for_user, buffer left
   at its default *)

TTIdle ==
    /\ tt_times = <<>> /\ tt_max_time = NaN /\ tt_guess = <<>> /\ tt_N = 0
    /\ tt_masked = <<>> /\ tt_idxs = <<>> /\ tt_test = <<>> /\ tt_next = <<>>
    /\ tt_pc = "idle"

TTInit ==
    /\ tt_times \in SeqUpTo(TimeSamples, MaxSeries)
    /\ tt_max_time \in EndTimes
    /\ tt_guess \in Guesses
    /\ tt_N \in 1..MaxCuts
    /\ tt_masked = <<>> /\ tt_idxs = <<>> /\ tt_test = <<>> /\ tt_next = <<>>
    /\ tt_pc = "call"

\* the call returns test_times and test_next_times
TTReturn ==
    /\ tt_pc = "call"
    /\ LET masked == GuessAndMask(tt_times, tt_max_time, tt_guess, R(TestTimesBuffer))
           idxs == index_of_biggest_diffs_across_arr(masked, tt_N)
       IN  /\ dropna(masked) # <<>>
           /\ tt_masked' = masked
           /\ tt_idxs' = idxs
           /\ tt_test' = TakeIx(masked, idxs)
           /\ tt_next' = TakeNextIx(masked, idxs)
    /\ tt_pc' = "returned"
    /\ UNCHANGED <<tt_times, tt_max_time, tt_guess, tt_N>>
    /\ UNCHANGED <<maskVars, syVars, cpVars, srVars, laterVars>>

\* no defined entry is left: ser.index[0] raises IndexError
TTRaise ==
    /\ tt_pc = "call"
    /\ LET masked == GuessAndMask(tt_times, tt_max_time, tt_guess, R(TestTimesBuffer))
       IN  /\ dropna(masked) = <<>>
           /\ tt_masked' = masked
    /\ tt_pc' = "IndexError"
    /\ UNCHANGED <<tt_times, tt_max_time, tt_guess, tt_N, tt_idxs, tt_test, tt_next>>
    /\ UNCHANGED <<maskVars, syVars, cpVars, srVars, laterVars>>

-----------------------------------------------------------------------------
(* Specification of one call of generate_mplayer_guesses_and_sync *)

SyncIdle ==
    /\ sy_retract = <<>> /\ sy_vvsb = NaN /\ sy_duration = NaN
    /\ sy_guess = <<>> /\ sy_N = 0 /\ sy_user = [given |-> FALSE, vals |-> <<>>]
    /\ sy_masked = <<>> /\ sy_test = <<>> /\ sy_next = <<>> /\ sy_printed = <<>>
    /\ sy_new_fit = <<>> /\ sy_resids = <<>> /\ sy_combined = <<>>
    /\ sy_warned = FALSE /\ sy_pc = "idle"

SyncInit ==
    /\ sy_retract \in {Sorted(S) : S \in SUBSET RetractSamples}
    /\ sy_vvsb \in StartGuesses
    /\ sy_duration = R(100)
    /\ sy_guess \in Guesses
    /\ sy_N \in 1..MaxPoints
    /\ sy_user \in {[given |-> FALSE, vals |-> <<>>]} \cup
                    {[given |-> TRUE, vals |-> u] : u \in SeqUpTo(UserSamples, MaxPoints)}
    /\ sy_masked = <<>> /\ sy_test = <<>> /\ sy_next = <<>> /\ sy_printed = <<>>
    /\ sy_new_fit = <<>> /\ sy_resids = <<>> /\ sy_combined = <<>>
    /\ sy_warned = FALSE /\ sy_pc = "call"

\* trials_info['time_retract_vbase'] = trials_info['time_retract'] - test_guess_vvsb
TimeRetractVbase == [i \in 1..Len(sy_retract) |-> RSub(sy_retract[i], sy_vvsb)]

\* lines 93-117: load the trials, choose the test times
SyncChoose ==
    /\ sy_pc = "call"
    /\ LET masked == GuessAndMask(TimeRetractVbase, sy_duration, sy_guess,
                                  R(TestTimesBuffer))
           idxs == index_of_biggest_diffs_across_arr(masked, sy_N)
       IN  /\ sy_masked' = masked
           /\ IF dropna(masked) = <<>>
              THEN /\ sy_pc' = "IndexError"
                   /\ UNCHANGED <<sy_test, sy_next>>
              ELSE /\ sy_pc' = "chosen"
                   /\ sy_test' = TakeIx(masked, idxs)
                   /\ sy_next' = TakeNextIx(masked, idxs)
    /\ UNCHANGED <<syIn, sy_printed, sy_new_fit, sy_resids, sy_combined, sy_warned>>
    /\ UNCHANGED <<maskVars, ttVars, cpVars, srVars, laterVars>>

\* lines 119-123: print the mplayer commands; int(nan) raises ValueError
SyncPrint ==
    /\ sy_pc = "chosen"
    /\ IF \E n \in 1..Len(sy_test) : IsNaN(sy_test[n])
       THEN /\ sy_pc' = "ValueError"
            /\ LET bad == SetMin({n \in 1..Len(sy_test) : IsNaN(sy_test[n])})
               IN  sy_printed' = [n \in 1..(bad - 1) |->
                        [ss |-> IntOf(sy_test[n]) - PreTime,
                         guess |-> sy_test[n], next |-> sy_next[n]]]
       ELSE /\ sy_pc' = "printed"
            /\ sy_printed' = [n \in 1..Len(sy_test) |->
                    [ss |-> IntOf(sy_test[n]) - PreTime,
                     guess |-> sy_test[n], next |-> sy_next[n]]]
    /\ UNCHANGED <<syIn, sy_masked, sy_test, sy_next, sy_new_fit, sy_resids,
                   sy_combined, sy_warned>>
    /\ UNCHANGED <<maskVars, ttVars, cpVars, srVars, laterVars>>

\* lines 126-127: no data provided
SyncReturnNoData ==
    /\ sy_pc = "printed"
    /\ ~sy_user.given
    /\ sy_pc' = "returned"
    /\ UNCHANGED <<syIn, sy_masked, sy_test, sy_next, sy_printed, sy_new_fit,
                   sy_resids, sy_combined, sy_warned>>
    /\ UNCHANGED <<maskVars, ttVars, cpVars, srVars, laterVars>>

\* lines 128-131: the wrong number of results
SyncWarn ==
    /\ sy_pc = "printed"
    /\ sy_user.given
    /\ WrongLength(sy_user.vals, sy_N)
    /\ sy_warned' = TRUE
    /\ sy_pc' = "returned"
    /\ UNCHANGED <<syIn, sy_masked, sy_test, sy_next, sy_printed, sy_new_fit,
                   sy_resids, sy_combined>>
    /\ UNCHANGED <<maskVars, ttVars, cpVars, srVars, laterVars>>

\* lines 133-152: fit, composite, print the diagnostics; np.polyfit raises
\* TypeError when x and y differ in length
SyncFit ==
    /\ sy_pc = "printed"
    /\ sy_user.given
    /\ ~WrongLength(sy_user.vals, sy_N)
    /\ IF Len(sy_user.vals) # Len(sy_test)
       THEN /\ sy_pc' = "TypeError"
            /\ UNCHANGED <<sy_new_fit, sy_resids, sy_combined>>
       ELSE LET new_fit == polyfit(sy_test, sy_user.vals)
            IN  /\ sy_new_fit' = new_fit
                /\ sy_resids' = Resids(new_fit, sy_test, sy_user.vals)
                /\ sy_combined' = Composite(new_fit, sy_guess)
                /\ sy_pc' = "returned"
    /\ UNCHANGED <<syIn, sy_masked, sy_test, sy_next, sy_printed, sy_warned>>
    /\ UNCHANGED <<maskVars, ttVars, cpVars, srVars, laterVars>>

-----------------------------------------------------------------------------
(* Specification of the composite of two corrections, in both orders *)

ComposeIdle ==
    /\ cp_A = <<>> /\ cp_B = <<>> /\ cp_AB = <<>> /\ cp_BA = <<>> /\ cp_pc = "idle"

ComposeInit ==
    /\ cp_A \in Corrections
    /\ cp_B \in Corrections
    /\ cp_AB = <<>> /\ cp_BA = <<>>
    /\ cp_pc = "call"

ComposeBoth ==
    /\ cp_pc = "call"
    /\ cp_AB' = Composite(cp_B, cp_A)
    /\ cp_BA' = Composite(cp_A, cp_B)
    /\ cp_pc' = "done"
    /\ UNCHANGED <<cp_A, cp_B>>
    /\ UNCHANGED <<maskVars, ttVars, syVars, srVars, laterVars>>

-----------------------------------------------------------------------------
(* Specification of one call of search_for_behavior_and_video_files, from
   the parsed behavior files on *)

SearchIdle ==
    /\ sr_video_files = <<>> /\ sr_cache = [given |-> FALSE, rows |-> <<>>]
    /\ sr_behavior = <<>> /\ sr_video_df = NoFrame /\ sr_probed = <<>>
    /\ sr_bidx = 0 /\ sr_error = <<>> /\ sr_pc = "idle"

SearchInit ==
    /\ sr_video_files \in {q \in SeqUpTo(VideoFileSet, MaxVideos) :
                              Distinct([i \in 1..Len(q) |-> FileName(q[i])])}
    /\ sr_cache \in Caches(sr_video_files)
    /\ \E q \in {q \in SeqUpTo(BehaviorFileSet, MaxBehavior) : Distinct(q)} :
          sr_behavior = [i \in 1..Len(q) |-> BehaviorRecord(q[i])]
    /\ sr_video_df = NoFrame /\ sr_probed = <<>>
    /\ sr_bidx = 1 /\ sr_error = <<>> /\ sr_pc = "call"

\* lines 190-199: list the videos, parse_video_filenames
SearchParse ==
    /\ sr_pc = "call"
    /\ LET res == parse_video_filenames(sr_video_files, sr_cache)
       IN  /\ sr_video_df' = res.df
           /\ sr_probed' = res.probed
           /\ sr_pc' = IF res.raised = "" THEN "matching" ELSE "raised"
           /\ sr_error' = IF res.raised = "" THEN <<>>
                          ELSE <<"parse_video_filenames", res.raised>>
    /\ UNCHANGED <<sr_video_files, sr_cache, sr_behavior, sr_bidx>>
    /\ UNCHANGED <<maskVars, ttVars, syVars, cpVars, laterVars>>

\* lines 202-223: one turn of the loop
SearchMatch ==
    /\ sr_pc = "matching"
    /\ sr_bidx <= Len(sr_behavior)
    /\ LET res == MatchRow(sr_video_df, sr_behavior[sr_bidx])
       IN  IF res.raised = ""
           THEN /\ sr_behavior' = [sr_behavior EXCEPT ![sr_bidx] = res.row]
                /\ sr_bidx' = sr_bidx + 1
                /\ sr_pc' = "matching"
                /\ UNCHANGED sr_error
           ELSE /\ sr_pc' = "raised"
                /\ sr_error' = <<"search_for_behavior_and_video_files", res.raised>>
                /\ UNCHANGED <<sr_behavior, sr_bidx>>
    /\ UNCHANGED <<sr_video_files, sr_cache, sr_video_df, sr_probed>>
    /\ UNCHANGED <<maskVars, ttVars, syVars, cpVars, laterVars>>

\* lines 225-229: join and return
SearchReturn ==
    /\ sr_pc = "matching"
    /\ sr_bidx > Len(sr_behavior)
    /\ sr_pc' = "returned"
    /\ UNCHANGED <<sr_video_files, sr_cache, sr_behavior, sr_video_df, sr_probed,
                   sr_bidx, sr_error>>
    /\ UNCHANGED <<maskVars, ttVars, syVars, cpVars, laterVars>>
-----------------------------------------------------------------------------
(* Specification of one call of parse_behavior_filenames *)

\* the mouse names of the files
MouseNames ==
    {<<"k", "f", "1", "3", "a">>, <<"K", "F", "1", "3", "A">>,
     <<"K", "F", "1", "3">>, <<"K", "f", "1", "3", "a">>,
     <<"a", "m", "0", "3", "a">>, <<"k", "m", "1", "4">>,
     <<"A", "M", "0", "5", "A">>, <<"z", "z", "9", "9">>}

\* ardulines files of rig L1, and a file of another name
ArdulinesFileSet ==
    {[rig |-> "L1", base |-> "ardulines", date |-> 20190101, clock |-> 120500,
      mouse |-> m] : m \in MouseNames}
    \cup {[rig |-> "L1", base |-> "notes", date |-> 0, clock |-> 0, mouse |-> <<>>]}

PBIdle ==
    /\ pb_files = <<>> /\ pb_clean = FALSE /\ pb_df = <<>>
    /\ pb_warned = FALSE /\ pb_pc = "idle"

PBInit ==
    /\ pb_files \in SeqUpTo(ArdulinesFileSet, MaxFiles)
    /\ pb_clean \in BOOLEAN
    /\ pb_df = <<>> /\ pb_warned = FALSE /\ pb_pc = "call"

\* lines 243-263: a record for each file whose name matches
PBParse ==
    /\ pb_pc = "call"
    /\ LET matching == SelectSeq(pb_files, MatchesArdulines)
       IN  pb_df' = [i \in 1..Len(matching) |-> ArdulinesRecord(matching[i])]
    /\ pb_pc' = "parsed"
    /\ UNCHANGED <<pb_files, pb_clean, pb_warned>>
    /\ UNCHANGED <<maskVars, ttVars, syVars, cpVars, srVars, vidVars, cdVars>>

\* lines 265-266, 276
PBWarn ==
    /\ pb_pc = "parsed"
    /\ Len(pb_df) = 0
    /\ pb_warned' = TRUE
    /\ pb_pc' = "returned"
    /\ UNCHANGED <<pb_files, pb_clean, pb_df>>
    /\ UNCHANGED <<maskVars, ttVars, syVars, cpVars, srVars, vidVars, cdVars>>

\* lines 268-276
PBClean ==
    /\ pb_pc = "parsed"
    /\ Len(pb_df) # 0 /\ pb_clean
    /\ LET cleaned == [i \in 1..Len(pb_df) |->
                          [pb_df[i] EXCEPT !.mouse = Clean(pb_df[i].mouse)]]
       IN  pb_df' = SelectSeq(cleaned, LAMBDA r : r.mouse \in mice)
    /\ pb_pc' = "returned"
    /\ UNCHANGED <<pb_files, pb_clean, pb_warned>>
    /\ UNCHANGED <<maskVars, ttVars, syVars, cpVars, srVars, vidVars, cdVars>>

\* line 276 without cleaning
PBReturn ==
    /\ pb_pc = "parsed"
    /\ Len(pb_df) # 0 /\ ~pb_clean
    /\ pb_pc' = "returned"
    /\ UNCHANGED <<pb_files, pb_clean, pb_df, pb_warned>>
    /\ UNCHANGED <<maskVars, ttVars, syVars, cpVars, srVars, vidVars, cdVars>>


-----------------------------------------------------------------------------
(* Specification of one call of a function of video.py *)

\* what ffprobe may print: invalid data; one video stream of 2x1 pixels and
\* a duration; two video streams; no video stream and no duration
ProbeOutputs ==
    {[invalid |-> TRUE, sizes |-> <<>>, duration |-> <<>>],
     [invalid |-> FALSE, sizes |-> <<<<2, 1>>>>, duration |-> <<0, 1, 0>>],
     [invalid |-> FALSE, sizes |-> <<<<2, 1>>, <<1, 1>>>>, duration |-> <<0, 1, 0>>],
     [invalid |-> FALSE, sizes |-> <<>>, duration |-> <<>>]}

GoodProbe == [invalid |-> FALSE, sizes |-> <<<<2, 1>>>>, duration |-> <<0, 1, 0>>]

\* streams of up to MaxFrames frames of two bytes, or ending within a frame
Streams == 0..(2 * MaxFrames + 1)

FrameDumpArgs ==
    [meth : {"mplayer", "ffmpeg best", "ffmpeg accurate", "ffmpeg fast", "other"},
     verbose : BOOLEAN, dry_run : BOOLEAN,
     beyond : BOOLEAN]      \* frametime is beyond the end of the file

ChunkArgs ==
    [n_frames : 0..(MaxFrames + 1), frame_chunk_sz : 1..MaxChunk,
     func : {"mean", "keep", "None"},
     finalize : {"concatenate", "listcomp", "list", "other"},
     image : {<<>>, <<2, 1>>, <<1, 1>>}]    \* <<image_w, image_h>>, <<>> for None

VideoLocalsIdle ==
    /\ v_size = <<>> /\ v_offset = 0 /\ v_frames_read = 0 /\ v_res_l = <<>>
    /\ v_out_of_frames = FALSE /\ v_live = {} /\ v_log = <<>>
    /\ v_printed = <<>> /\ v_exc = "" /\ v_result = <<>>

VideoIdle ==
    /\ v_op = "" /\ v_args = <<>> /\ v_probe = GoodProbe /\ v_stream = 0
    /\ v_status = 0 /\ v_pc = "idle"
    /\ VideoLocalsIdle

VideoInit ==
    /\ v_op \in {"get_video_aspect", "get_video_duration", "get_frame",
                 "frame_dump", "process_chunks_of_video"}
    /\ v_args \in IF v_op = "frame_dump" THEN FrameDumpArgs
                  ELSE IF v_op = "process_chunks_of_video" THEN ChunkArgs
                  ELSE {<<>>}
    /\ v_probe \in IF v_op = "frame_dump" \/
                      (v_op = "process_chunks_of_video" /\ v_args.image # <<>>)
                   THEN {GoodProbe} ELSE ProbeOutputs
    /\ v_stream \in IF v_op \in {"get_frame", "process_chunks_of_video"}
                    THEN Streams ELSE {0}
    /\ v_status \in IF v_op = "frame_dump" THEN {0, 1} ELSE {0}
    /\ v_pc = "call"
    /\ VideoLocalsIdle

\* subprocess.Popen(['ffprobe', ...]) and proc.communicate()
Ffprobe == <<<<"Popen", "ffprobe">>, <<"communicate", "ffprobe">>>>

\* lines 256-300
AspectCall ==
    /\ v_pc = "call" /\ v_op = "get_video_aspect"
    /\ LET res == get_video_aspect(v_probe)
       IN  /\ v_log' = v_log \o Ffprobe
           /\ v_exc' = res.raised
           /\ v_result' = res.size
           /\ v_printed' = v_printed \o res.printed
           /\ v_pc' = IF res.raised = "" THEN "returned" ELSE "raised"
    /\ UNCHANGED <<v_op, v_args, v_probe, v_stream, v_status, v_size, v_offset,
                   v_frames_read, v_res_l, v_out_of_frames, v_live>>
    /\ UNCHANGED <<maskVars, ttVars, syVars, cpVars, srVars, pbVars, cdVars>>

\* lines 303-329
DurationCall ==
    /\ v_pc = "call" /\ v_op = "get_video_duration"
    /\ LET res == get_video_duration(v_probe)
       IN  /\ v_log' = v_log \o Ffprobe
           /\ v_exc' = res.raised
           /\ v_result' = res.duration
           /\ v_pc' = IF res.raised = "" THEN "returned" ELSE "raised"
    /\ UNCHANGED <<v_op, v_args, v_probe, v_stream, v_status, v_size, v_offset,
                   v_frames_read, v_res_l, v_out_of_frames, v_live, v_printed>>
    /\ UNCHANGED <<maskVars, ttVars, syVars, cpVars, srVars, pbVars, cdVars>>

\* line 29 of get_frame: v_width, v_height = get_video_aspect(filename)
GFAspect ==
    /\ v_pc = "call" /\ v_op = "get_frame"
    /\ LET res == get_video_aspect(v_probe)
       IN  /\ v_log' = v_log \o Ffprobe
           /\ v_exc' = res.raised
           /\ v_size' = res.size
           /\ v_printed' = v_printed \o res.printed
           /\ v_pc' = IF res.raised = "" THEN "spawn" ELSE "raised"
    /\ UNCHANGED <<v_op, v_args, v_probe, v_stream, v_status, v_offset,
                   v_frames_read, v_res_l, v_out_of_frames, v_live, v_result>>
    /\ UNCHANGED <<maskVars, ttVars, syVars, cpVars, srVars, pbVars, cdVars>>

\* lines 47-49 and 189-191: pipe = subprocess.Popen(command, ...)
Spawn ==
    /\ v_pc = "spawn"
    /\ v_live' = v_live \cup {"ffmpeg"}
    /\ v_log' = Append(v_log, <<"Popen", "ffmpeg">>)
    /\ v_pc' = "try"
    /\ UNCHANGED <<v_op, v_args, v_probe, v_stream, v_status, v_size, v_offset,
                   v_frames_read, v_res_l, v_out_of_frames, v_printed, v_exc,
                   v_result>>
    /\ UNCHANGED <<maskVars, ttVars, syVars, cpVars, srVars, pbVars, cdVars>>

\* lines 51-61 of get_frame: the try suite and its except clause
GFRead ==
    /\ v_pc = "try" /\ v_op = "get_frame"
    /\ LET read_size == v_size[1] * v_size[2]
           raw_image == Read(v_stream, v_offset, read_size)
       IN  /\ v_offset' = v_offset + raw_image
           /\ IF raw_image < read_size
              THEN IF Caught("OutOfFrames")
                   THEN /\ v_printed' = Append(v_printed, "warning: cannot get frame")
                        /\ v_result' = [frame |-> "None"]
                        /\ v_exc' = ""
                   ELSE /\ v_exc' = "OutOfFrames"
                        /\ UNCHANGED <<v_printed, v_result>>
              ELSE /\ v_result' = [frame |-> "array"]
                   /\ UNCHANGED <<v_printed, v_exc>>
    /\ v_pc' = "finally"
    /\ UNCHANGED <<v_op, v_args, v_probe, v_stream, v_status, v_size,
                   v_frames_read, v_res_l, v_out_of_frames, v_live, v_log>>
    /\ UNCHANGED <<maskVars, ttVars, syVars, cpVars, srVars, pbVars, cdVars>>

\* lines 53 and 207: pipe.stdout.read raises (an I/O error)
ReadRaises ==
    /\ v_pc = "try"
    /\ v_exc' = "IOError"
    /\ v_pc' = "finally"
    /\ UNCHANGED <<v_op, v_args, v_probe, v_stream, v_status, v_size, v_offset,
                   v_frames_read, v_res_l, v_out_of_frames, v_live, v_log,
                   v_printed, v_result>>
    /\ UNCHANGED <<maskVars, ttVars, syVars, cpVars, srVars, pbVars, cdVars>>

\* lines 63-70 of get_frame: the finally clause, then the return or the
\* exception on its way
GFFinally ==
    /\ v_pc = "finally" /\ v_op = "get_frame"
    /\ v_log' = Finally(v_log, v_exc)
    /\ v_live' = IF v_log' # v_log /\ v_log'[Len(v_log')] = <<"communicate", "ffmpeg">>
                 THEN v_live \ {"ffmpeg"} ELSE v_live
    /\ IF v_exc = ""
       THEN /\ v_result' = [frame |-> v_result.frame, stdout |-> "stdout",
                            stderr |-> "stderr"]
            /\ v_pc' = "returned"
       ELSE /\ v_pc' = "raised"
            /\ UNCHANGED v_result
    /\ UNCHANGED <<v_op, v_args, v_probe, v_stream, v_status, v_size, v_offset,
                   v_frames_read, v_res_l, v_out_of_frames, v_printed, v_exc>>
    /\ UNCHANGED <<maskVars, ttVars, syVars, cpVars, srVars, pbVars, cdVars>>

\* lines 164-173 of process_chunks_of_video: func and the aspect
PVStart ==
    /\ v_pc = "call" /\ v_op = "process_chunks_of_video"
    /\ IF v_args.func = "None"
       THEN /\ v_exc' = "ValueError"
            /\ v_pc' = "raised"
            /\ UNCHANGED <<v_log, v_size, v_printed>>
       ELSE IF v_args.image = <<>>
       THEN LET res == get_video_aspect(v_probe)
            IN  /\ v_log' = v_log \o Ffprobe
                /\ v_exc' = res.raised
                /\ v_size' = res.size
                /\ v_printed' = v_printed \o res.printed
                /\ v_pc' = IF res.raised = "" THEN "spawn" ELSE "raised"
       ELSE /\ v_size' = v_args.image
            /\ v_pc' = "spawn"
            /\ UNCHANGED <<v_log, v_exc, v_printed>>
    /\ UNCHANGED <<v_op, v_args, v_probe, v_stream, v_status, v_offset,
                   v_frames_read, v_res_l, v_out_of_frames, v_live, v_result>>
    /\ UNCHANGED <<maskVars, ttVars, syVars, cpVars, srVars, pbVars, cdVars>>

\* lines 197-228: one turn of the while loop
PVChunk ==
    /\ v_pc = "try" /\ v_op = "process_chunks_of_video"
    /\ v_frames_read < v_args.n_frames /\ ~v_out_of_frames
    /\ LET image_w == v_size[1]
           image_h == v_size[2]
           asked == ThisChunk(v_frames_read, v_args.frame_chunk_sz, v_args.n_frames)
           raw_image == Read(v_stream, v_offset, image_w * image_h * asked)
           short == raw_image < image_w * image_h * asked
           this_chunk == IF short THEN (raw_image \div image_w) \div image_h ELSE asked
           first == v_offset \div (image_w * image_h)
       IN  /\ v_offset' = v_offset + raw_image
           /\ v_printed' = IF short THEN Append(v_printed, "warning: ran out of frames")
                           ELSE v_printed
           /\ v_out_of_frames' = short
           /\ IF this_chunk * image_w * image_h # raw_image
              THEN \* the assertion of line 214
                   /\ v_exc' = "AssertionError"
                   /\ v_pc' = "finally"
                   /\ UNCHANGED <<v_res_l, v_frames_read>>
              ELSE /\ v_res_l' = Append(v_res_l, [k \in 1..this_chunk |-> first + k])
                   /\ v_frames_read' = v_frames_read + this_chunk
                   /\ UNCHANGED <<v_exc, v_pc>>
    /\ UNCHANGED <<v_op, v_args, v_probe, v_stream, v_status, v_size, v_live,
                   v_log, v_result>>
    /\ UNCHANGED <<maskVars, ttVars, syVars, cpVars, srVars, pbVars, cdVars>>

\* line 197: the loop is over
PVLoopEnd ==
    /\ v_pc = "try" /\ v_op = "process_chunks_of_video"
    /\ ~(v_frames_read < v_args.n_frames /\ ~v_out_of_frames)
    /\ v_pc' = "finally"
    /\ UNCHANGED <<v_op, v_args, v_probe, v_stream, v_status, v_size, v_offset,
                   v_frames_read, v_res_l, v_out_of_frames, v_live, v_log,
                   v_printed, v_exc, v_result>>
    /\ UNCHANGED <<maskVars, ttVars, syVars, cpVars, srVars, pbVars, cdVars>>

\* lines 230-238: the exception raised again, the finally clause
PVFinally ==
    /\ v_pc = "finally" /\ v_op = "process_chunks_of_video"
    /\ v_log' = Finally(v_log, v_exc)
    /\ v_live' = IF v_log' # v_log /\ v_log'[Len(v_log')] = <<"communicate", "ffmpeg">>
                 THEN v_live \ {"ffmpeg"} ELSE v_live
    /\ v_pc' = IF v_exc = "" THEN "finalize" ELSE "raised"
    /\ UNCHANGED <<v_op, v_args, v_probe, v_stream, v_status, v_size, v_offset,
                   v_frames_read, v_res_l, v_out_of_frames, v_printed, v_exc,
                   v_result>>
    /\ UNCHANGED <<maskVars, ttVars, syVars, cpVars, srVars, pbVars, cdVars>>

\* lines 240-254: stick the chunks together and return
PVFinalize ==
    /\ v_pc = "finalize"
    /\ LET out == Finalize(v_res_l, v_args.func, v_args.finalize)
       IN  /\ v_exc' = out.raised
           /\ v_result' = out.res
           /\ v_printed' = v_printed \o out.printed
           /\ v_pc' = IF out.raised = "" THEN "returned" ELSE "raised"
    /\ UNCHANGED <<v_op, v_args, v_probe, v_stream, v_status, v_size, v_offset,
                   v_frames_read, v_res_l, v_out_of_frames, v_live, v_log>>
    /\ UNCHANGED <<maskVars, ttVars, syVars, cpVars, srVars, pbVars, cdVars>>

\* lines 109-132: frame_dump
FrameDump ==
    /\ v_pc = "call" /\ v_op = "frame_dump"
    /\ LET bound == v_args.meth \in {"ffmpeg best", "ffmpeg accurate", "ffmpeg fast"}
       IN  IF v_args.meth = "mplayer"
           THEN /\ v_exc' = "ValueError" /\ v_pc' = "raised"
                /\ UNCHANGED <<v_log, v_result>>
           ELSE IF ~bound /\ (v_args.verbose \/ ~v_args.dry_run)
           THEN \* syscall was never assigned
                /\ v_exc' = "UnboundLocalError" /\ v_pc' = "raised"
                /\ UNCHANGED <<v_log, v_result>>
           ELSE IF v_args.dry_run
           THEN /\ v_pc' = "returned"
                /\ UNCHANGED <<v_log, v_exc, v_result>>
           ELSE /\ v_log' = Append(v_log, <<"check_output", "ffmpeg">>)
                /\ IF v_status # 0
                   THEN /\ v_exc' = "CalledProcessError" /\ v_pc' = "raised"
                        /\ UNCHANGED v_result
                   ELSE /\ v_result' = [written |-> ~v_args.beyond]
                        /\ v_pc' = "returned"
                        /\ UNCHANGED v_exc
    /\ UNCHANGED <<v_op, v_args, v_probe, v_stream, v_status, v_size, v_offset,
                   v_frames_read, v_res_l, v_out_of_frames, v_live, v_printed>>
    /\ UNCHANGED <<maskVars, ttVars, syVars, cpVars, srVars, pbVars, cdVars>>

-----------------------------------------------------------------------------
(* Specification of runs of cached_dump_frames_at_retraction_times *)

\* the behave_filename of the sessions
Sessions == {"s1", "s2", "s3"}

\* the directories under frame_dir, and frame_dir itself
FrameDir == "frames"

\* os.path.exists(path)
Exists(fs, path) == path \in fs

\* the directories when dump_frames_at_retraction_time is entered: line 38
\* has made output_dir
DirsAtDumpMkdirAfter(fs, output_dir) == fs
DirsAtDump(fs, output_dir) == fs \cup {output_dir}

DumpIdle ==
    /\ cd_fs = {} /\ cd_run = 0 /\ cd_rows = <<>> /\ cd_idx = 0
    /\ cd_events = <<>> /\ cd_pc = "idle"

\* frame_dir is missing, or there with the directories of some sessions
DumpInit ==
    /\ cd_fs \in {{}} \cup {{FrameDir} \cup d : d \in SUBSET {"s3"}}
    /\ cd_run = 0 /\ cd_rows = <<>> /\ cd_idx = 0
    /\ cd_events = <<>> /\ cd_pc = "ready"

\* lines 26-28: a run starts on some rows
DumpStart ==
    /\ cd_pc \in {"ready", "raised"}
    /\ cd_run < MaxRuns
    /\ cd_rows' \in SeqUpTo(Sessions, MaxRows)
    /\ cd_fs' = cd_fs \cup {FrameDir}
    /\ cd_run' = cd_run + 1
    /\ cd_idx' = 1
    /\ cd_pc' = "loop"
    /\ UNCHANGED cd_events
    /\ UNCHANGED <<maskVars, ttVars, syVars, cpVars, srVars, pbVars, vidVars>>

\* lines 33-35: output_dir exists, continue
DumpSkip ==
    /\ cd_pc = "loop" /\ cd_idx <= Len(cd_rows)
    /\ Exists(cd_fs, cd_rows[cd_idx])
    /\ cd_events' = Append(cd_events,
            [run |-> cd_run, name |-> cd_rows[cd_idx], existed |-> TRUE,
             dumped |-> FALSE, made |-> TRUE])
    /\ cd_idx' = cd_idx + 1
    /\ UNCHANGED <<cd_fs, cd_run, cd_rows, cd_pc>>
    /\ UNCHANGED <<maskVars, ttVars, syVars, cpVars, srVars, pbVars, vidVars>>

\* lines 36-42: make output_dir and dump the frames;
\* dump_frames_at_retraction_time raises (line 66 at the latest: the name
\* behavior is not defined in its module) and the run ends with it
DumpRow ==
    /\ cd_pc = "loop" /\ cd_idx <= Len(cd_rows)
    /\ ~Exists(cd_fs, cd_rows[cd_idx])
    /\ LET at_dump == DirsAtDump(cd_fs, cd_rows[cd_idx])
       IN  /\ cd_events' = Append(cd_events,
                  [run |-> cd_run, name |-> cd_rows[cd_idx], existed |-> FALSE,
                   dumped |-> TRUE, made |-> Exists(at_dump, cd_rows[cd_idx])])
           /\ cd_fs' = at_dump
    /\ cd_pc' = "raised"
    /\ UNCHANGED <<cd_run, cd_rows, cd_idx>>
    /\ UNCHANGED <<maskVars, ttVars, syVars, cpVars, srVars, pbVars, vidVars>>

\* line 31: no row is left, the run returns
DumpReturn ==
    /\ cd_pc = "loop" /\ cd_idx > Len(cd_rows)
    /\ cd_pc' = "ready"
    /\ UNCHANGED <<cd_fs, cd_run, cd_rows, cd_idx, cd_events>>
    /\ UNCHANGED <<maskVars, ttVars, syVars, cpVars, srVars, pbVars, vidVars>>

-----------------------------------------------------------------------------
(* Specification of one call of any operation that runs ffprobe on a file:
   a function of video.py, or search_for_behavior_and_video_files with its
   parse_video_filenames *)

ProbeInit == (VideoInit /\ SearchIdle) \/ (SearchInit /\ VideoIdle)

-----
(* Specifications *)

MaskNext == MaskCall

InitMask ==
    /\ MaskInit
    /\ TTIdle /\ SyncIdle /\ ComposeIdle /\ SearchIdle /\ PBIdle /\ VideoIdle
    /\ DumpIdle

SpecMask == InitMask /\ [][MaskNext]_vars

TTNext ==
    \/ TTReturn
    \/ TTRaise

InitTestTimes ==
    /\ TTInit
    /\ MaskIdle /\ SyncIdle /\ ComposeIdle /\ SearchIdle /\ PBIdle
    /\ VideoIdle /\ DumpIdle

SpecTestTimes == InitTestTimes /\ [][TTNext]_vars

SyncNext ==
    \/ SyncChoose
    \/ SyncPrint
    \/ SyncReturnNoData
    \/ SyncWarn
    \/ SyncFit

InitSync ==
    /\ SyncInit
    /\ MaskIdle /\ TTIdle /\ ComposeIdle /\ SearchIdle /\ PBIdle /\ VideoIdle
    /\ DumpIdle

SpecSync == InitSync /\ [][SyncNext]_vars

ComposeNext == ComposeBoth

InitCompose ==
    /\ ComposeInit
    /\ MaskIdle /\ TTIdle /\ SyncIdle /\ SearchIdle /\ PBIdle /\ VideoIdle
    /\ DumpIdle

SpecCompose == InitCompose /\ [][ComposeNext]_vars

SearchNext ==
    \/ SearchParse
    \/ SearchMatch
    \/ SearchReturn

InitSearch ==
    /\ SearchInit
    /\ MaskIdle /\ TTIdle /\ SyncIdle /\ ComposeIdle /\ PBIdle /\ VideoIdle
    /\ DumpIdle

SpecSearch == InitSearch /\ [][SearchNext]_vars

PBNext ==
    \/ PBParse
    \/ PBWarn
    \/ PBClean
    \/ PBReturn

InitBehavior ==
    /\ PBInit
    /\ MaskIdle /\ TTIdle /\ SyncIdle /\ ComposeIdle /\ SearchIdle
    /\ VideoIdle /\ DumpIdle

SpecBehavior == InitBehavior /\ [][PBNext]_vars

VideoNext ==
    \/ AspectCall
    \/ DurationCall
    \/ GFAspect
    \/ Spawn
    \/ GFRead
    \/ ReadRaises
    \/ GFFinally
    \/ PVStart
    \/ PVChunk
    \/ PVLoopEnd
    \/ PVFinally
    \/ PVFinalize
    \/ FrameDump

InitVideo ==
    /\ VideoInit
    /\ MaskIdle /\ TTIdle /\ SyncIdle /\ ComposeIdle /\ SearchIdle /\ PBIdle
    /\ DumpIdle

SpecVideo == InitVideo /\ [][VideoNext]_vars

DumpNext ==
    \/ DumpStart
    \/ DumpSkip
    \/ DumpRow
    \/ DumpReturn

InitDump ==
    /\ DumpInit
    /\ MaskIdle /\ TTIdle /\ SyncIdle /\ ComposeIdle /\ SearchIdle /\ PBIdle
    /\ VideoIdle

SpecDump == InitDump /\ [][DumpNext]_vars

ProbeNext ==
    \/ AspectCall
    \/ DurationCall
    \/ GFAspect
    \/ Spawn
    \/ GFRead
    \/ ReadRaises
    \/ GFFinally
    \/ PVStart
    \/ PVChunk
    \/ PVLoopEnd
    \/ PVFinally
    \/ PVFinalize
    \/ FrameDump
    \/ SearchParse
    \/ SearchMatch
    \/ SearchReturn

InitProbe ==
    /\ ProbeInit
    /\ MaskIdle /\ TTIdle /\ SyncIdle /\ ComposeIdle /\ PBIdle /\ DumpIdle

SpecProbe == InitProbe /\ [][ProbeNext]_vars

-----
(* C8: after mask_by_buffer_from_end(ser, end_time=T, buffer=b) the series
   has its length and index, every entry is NaN or its original value v with
   b <= v <= T - b, and an entry that was within [b, T - b] is not masked. *)
C8_MaskKeepsIndexAndRange ==
    mask_pc = "done" =>
        /\ Len(mask_ser) = Len(mask_in)
        /\ DOMAIN mask_ser = DOMAIN mask_in
        /\ \A i \in DOMAIN mask_in :
              /\ IsNaN(mask_ser[i]) \/
                    ( /\ mask_ser[i] = mask_in[i]
                      /\ RLe(mask_buffer, mask_ser[i])
                      /\ RLe(mask_ser[i], RSub(mask_end_time, mask_buffer)) )
              /\ ( /\ RLe(mask_buffer, mask_in[i])
                   /\ RLe(mask_in[i], RSub(mask_end_time, mask_buffer)) )
                    => mask_ser[i] = mask_in[i]

\* a call that masked one entry at each end and kept one on each boundary
C8_Witness ==
    /\ mask_pc = "done"
    /\ \E i, j, k \in DOMAIN mask_in :
          /\ ~IsNaN(mask_in[i]) /\ IsNaN(mask_ser[i])
          /\ RLt(mask_in[i], mask_buffer)
          /\ ~IsNaN(mask_in[j]) /\ IsNaN(mask_ser[j])
          /\ RLt(RSub(mask_end_time, mask_buffer), mask_in[j])
          /\ mask_ser[k] = mask_buffer

-----------------------------------------------------------------------------
\* the label of the first defined entry after label l, or Missing
NextValid(s, l) ==
    LET later == {m \in (l + 1)..Len(s) : ~IsNaN(s[m])}
    IN  IF later = {} THEN Missing ELSE SetMin(later)

\* the gap from the defined entry l to the next defined entry
GapAfter(s, l) ==
    IF NextValid(s, l) = Missing THEN NaN ELSE RSub(s[NextValid(s, l)], s[l])

\* what the claim says of the n-th returned point
C9_PointAsClaimed(n) ==
    LET idx == dropna(tt_masked)
        lo == CutLabel(idx, tt_N, n - 1)
        hi == CutLabel(idx, tt_N, n)
        l == tt_idxs[n]
    IN  /\ l # Missing
        /\ ~IsNaN(tt_test[n])
        /\ tt_test[n] = tt_masked[l]
        /\ lo <= l /\ l <= hi
        /\ \A m \in lo..hi :
              (~IsNaN(tt_masked[m]) /\ NextValid(tt_masked, m) # Missing
                    /\ NextValid(tt_masked, m) <= hi)
                 => RLe(GapAfter(tt_masked, m), GapAfter(tt_masked, l))
        /\ NextValid(tt_masked, l) # Missing
        /\ tt_next[n] = tt_masked[NextValid(tt_masked, l)]

(* C9: given times with at least N valid entries, generate_test_times_for_user
   returns exactly N points, each the valid entry just before the largest gap
   between consecutive valid times of its segment, and each test_next_time is
   the time of the entry that follows the point across that gap. *)
C9_NPointsBeforeLargestGaps ==
    (tt_pc = "returned" /\ Len(dropna(tt_masked)) >= tt_N) =>
        /\ Len(tt_test) = tt_N
        /\ Len(tt_next) = tt_N
        /\ \A n \in 1..tt_N : C9_PointAsClaimed(n)
        /\ \A n, m \in 1..tt_N : n # m => tt_idxs[n] # tt_idxs[m]

-----------------------------------------------------------------------------
RMin(a, b) == IF IsNaN(a) \/ IsNaN(b) THEN NaN ELSE IF RLe(a, b) THEN a ELSE b

RMax(a, b) == IF IsNaN(a) \/ IsNaN(b) THEN NaN ELSE IF RLe(a, b) THEN b ELSE a

\* min(b.dt_end, v.dt_end) - max(b.dt_start, v.dt_start), undefined for a
\* video record without a start time
IntervalOverlap(b, v) ==
    RSub(RMin(b.dt_end, v.dt_end), RMax(b.dt_start, v.dt_start))

\* the labels of the video records of b's rig with a defined overlap
Candidates(b) ==
    {j \in 1..Len(sr_video_df.rows) :
        /\ sr_video_df.rows[j].rig = b.rig
        /\ ~IsNaN(IntervalOverlap(b, sr_video_df.rows[j]))}

\* the candidates of the largest overlap
Maximal(b) ==
    {j \in Candidates(b) :
        \A k \in Candidates(b) :
            RLe(IntervalOverlap(b, sr_video_df.rows[k]),
                IntervalOverlap(b, sr_video_df.rows[j]))}

\* the loop has finished the turn of row i
Matched(i) == i \in 1..Len(sr_behavior) /\ i < sr_bidx

(* C1: for every behavior record the loop has handled, best_video_index is
   the index of the first video of its rig with the largest
   min(b.dt_end, v.dt_end) - max(b.dt_start, v.dt_start) and
   best_video_overlap is that largest value; when it is <= 0 the record
   keeps index -1 and overlap 0. *)
C1_BestVideoIsFirstMaxOverlap ==
    \A i \in 1..Len(sr_behavior) :
        LET b == sr_behavior[i]
            first == SetMin(Maximal(b))
            most == IntervalOverlap(b, sr_video_df.rows[first])
        IN  IF Matched(i) /\ Maximal(b) # {} /\ RLt(R(0), most)
            THEN /\ b.best_video_index = first
                 /\ b.best_video_overlap = most
            ELSE /\ b.best_video_index = NoMatch
                 /\ b.best_video_overlap = R(0)

\* a returned call with a record matched to the first of two videos of the
\* same largest overlap, and a record left unmatched by a video of its rig
C1_Witness ==
    /\ sr_pc = "returned"
    /\ \E i, j \in 1..Len(sr_behavior) :
          /\ Cardinality(Maximal(sr_behavior[i])) >= 2
          /\ sr_behavior[i].best_video_index = SetMin(Maximal(sr_behavior[i]))
          /\ Candidates(sr_behavior[j]) # {}
          /\ sr_behavior[j].best_video_index = NoMatch

-----------------------------------------------------------------------------
\* the two videos and the behavior file of the scenario
ScenarioVideos ==
    {[stem |-> "L1", date |-> 20190101, clock |-> 120000, probe |-> <<1, 0, 0>>],
     [stem |-> "L2", date |-> 20190101, clock |-> 120000, probe |-> <<1, 0, 0>>]}

Scenario ==
    /\ Len(sr_video_files) = 2
    /\ {sr_video_files[1], sr_video_files[2]} = ScenarioVideos
    /\ Len(sr_behavior) = 1
    /\ sr_behavior[1].rig = "L1"
    /\ sr_behavior[1].dt_start = Strptime(20190101, 120500)
    /\ sr_behavior[1].dt_end = Strptime(20190101, 130500)

\* the label of the record of the scenario's L1 video, 0 without one
ScenarioL1 ==
    LET l == {j \in 1..Len(sr_video_df.rows) : sr_video_df.rows[j].rig = "L1"}
    IN  IF sr_video_df.cols = "named" /\ l # {} THEN SetMin(l) ELSE 0

(* C2 as stated: in the scenario the matcher assigns the behavior record to
   the L1 video with an overlap of 3300 s. *)
C2_ScenarioMatchesL1 ==
    (Scenario /\ Matched(1)) =>
        /\ sr_behavior[1].best_video_index = ScenarioL1
        /\ sr_behavior[1].best_video_overlap = R(3300)

(* C2 as amended: in the scenario the L1 video record spans 11:00:00 to
   12:00:00 and the behavior record 12:05:00 to 13:05:00, their overlap is
   -300 s, and the matcher leaves the behavior record unmatched (index -1,
   overlap 0): it is assigned neither to L1 nor to L2. *)
C2_ScenarioLeavesUnmatched ==
    (Scenario /\ Matched(1)) =>
        /\ ScenarioL1 # 0
        /\ IntervalOverlap(sr_behavior[1], sr_video_df.rows[ScenarioL1]) = R(-300)
        /\ sr_behavior[1].best_video_index = NoMatch
        /\ sr_behavior[1].best_video_overlap = R(0)

\* the scenario, matched and returned
C2_Witness ==
    /\ Scenario /\ Matched(1)
    /\ sr_pc = "returned"
    /\ Len(sr_video_df.rows) = 2

-----------------------------------------------------------------------------
\* the video table holds no record of the rig of behavior row i
NoVideoOfRig(i) ==
    /\ sr_video_df.cols # "numbered"
    /\ \A j \in 1..Len(sr_video_df.rows) :
          sr_video_df.rows[j].rig # sr_behavior[i].rig

(* C3: when the rig of a behavior record has no video record, also when
   there is no video record at all, the matcher raises no error and leaves
   the record with index -1 and overlap 0. *)
C3_NoVideoOfRigIsNoError ==
    \A i \in 1..Len(sr_behavior) :
        (sr_pc \in {"matching", "returned", "raised"} /\ NoVideoOfRig(i)
            /\ (sr_pc = "raised" => sr_error[1] = "search_for_behavior_and_video_files"))
        => /\ ~(sr_pc = "raised" /\ sr_bidx = i)
           /\ sr_behavior[i].best_video_index = NoMatch
           /\ sr_behavior[i].best_video_overlap = R(0)

-----
\* the call fitted: new_fit, resids and combined_fit exist
SyncFitted == sy_pc = "returned" /\ sy_new_fit # <<>>

(* C4: the combined correction is the new fit evaluated at the initial
   guess's output: for guess (g1, g0) and new fit (r1, r0), combined_fit has
   slope r1*g1 and intercept r1*g0 + r0. *)
C4_CombinedIsNewFitOfGuess ==
    SyncFitted =>
        /\ Coef(sy_combined, 1) = RMul(sy_new_fit[1], sy_guess[1])
        /\ Coef(sy_combined, 0) =
              RAdd(RMul(sy_new_fit[1], sy_guess[2]), sy_new_fit[2])
        /\ Len(sy_combined) <= 2

\* a fit of two points whose two composition orders differ in the intercept
C4_Witness ==
    /\ SyncFitted
    /\ sy_N >= 2
    /\ sy_new_fit[1] # R(0)
    /\ RAdd(RMul(sy_new_fit[1], sy_guess[2]), sy_new_fit[2])
          # RAdd(RMul(sy_guess[1], sy_new_fit[2]), sy_guess[2])
    /\ sy_guess # <<R(1), R(0)>>

\* the call got past the length check, or raised in the fit
SyncPastCheck == sy_pc \in {"returned", "TypeError"}

(* C6: with user_results of a length other than N the call warns and returns
   without a fit, a combined correction or residuals; with user_results None
   it returns without them too. *)
C6_NoFitOnWrongLength ==
    /\ (sy_user.given /\ Len(sy_user.vals) # sy_N) =>
          /\ sy_new_fit = <<>> /\ sy_resids = <<>> /\ sy_combined = <<>>
          /\ SyncPastCheck => (sy_pc = "returned" /\ sy_warned)
    /\ ~sy_user.given =>
          /\ sy_new_fit = <<>> /\ sy_resids = <<>> /\ sy_combined = <<>>
          /\ sy_pc # "TypeError"

\* a call with too many results that warned and returned, test times chosen
C6_Witness ==
    /\ sy_pc = "returned" /\ sy_warned
    /\ sy_user.given /\ Len(sy_user.vals) > sy_N
    /\ Len(sy_test) = sy_N /\ sy_new_fit = <<>>

(* C7: after a refit the residual reported for each reference point is
   observed minus predicted, user_results[i] minus the new fit at
   test_times[i], and the combined correction is output with them. *)
C7_ResidsObservedMinusPredicted ==
    SyncFitted =>
        /\ Len(sy_resids) = sy_N
        /\ \A i \in 1..sy_N :
              sy_resids[i] = RSub(sy_user.vals[i], polyval(sy_new_fit, sy_test[i]))
        /\ sy_combined # <<>>

-----------------------------------------------------------------------------
\* the example of the specification: guess (0.9991, 7.5), refit (1.02, -0.3)
ExampleGuess == <<Frac(9991, 10000), Frac(15, 2)>>
ExampleRefit == <<Frac(102, 100), Frac(-3, 10)>>

Identity == <<R(1), R(0)>>

(* C5 as stated: for any two first-degree corrections A and B, neither the
   identity, with different slopes, A then B differs from B then A. *)
C5_OrdersAlwaysDiffer ==
    (cp_pc = "done" /\ cp_A # Identity /\ cp_B # Identity /\ cp_A[1] # cp_B[1])
        => cp_AB # cp_BA

(* C5 as amended: the two orders have the same slope, and they differ exactly
   when a0*(b1 - 1) # b0*(a1 - 1); they differ for guess (0.9991, 7.5) and
   refit (1.02, -0.3), where guess-then-refit is (1.019082, 7.35) and
   refit-then-guess is (1.019082, 7.20027). *)
C5_OrdersDifferIffInterceptsDo ==
    cp_pc = "done" =>
        /\ Coef(cp_AB, 1) = Coef(cp_BA, 1)
        /\ (cp_AB # cp_BA) <=>
              (RMul(cp_A[2], RSub(cp_B[1], R(1)))
                 # RMul(cp_B[2], RSub(cp_A[1], R(1))))
        /\ (cp_A = ExampleGuess /\ cp_B = ExampleRefit) =>
              /\ cp_AB = <<Frac(1019082, 1000000), Frac(735, 100)>>
              /\ cp_BA = <<Frac(1019082, 1000000), Frac(720027, 100000)>>
              /\ cp_AB # cp_BA

\* the example, composed in both orders
C5_Witness ==
    /\ cp_pc = "done"
    /\ cp_A = ExampleGuess /\ cp_B = ExampleRefit
    /\ cp_AB # cp_BA

-----------------------------------------------------------------------------
\* the guessed times before masking: np.polyval(initial_guess, times)
SyncGuessed ==
    [i \in 1..Len(sy_retract) |-> polyval(sy_guess, TimeRetractVbase[i])]

\* what the masking call of dump_frames_at_retraction_time does to a series
DumpMasked(s, end_time) == mask_by_buffer_from_end(s, end_time, R(DumpBuffer))

SyncChosen == sy_pc \notin {"idle", "call"}

(* C10 as stated: candidate selection masks with the buffer of 10 that frame
   dumping uses, so a time is masked in the one exactly when it is masked in
   the other. *)
C10_SameBufferEverywhere ==
    SyncChosen =>
        \A i \in DOMAIN sy_masked :
            IsNaN(sy_masked[i]) <=> IsNaN(DumpMasked(SyncGuessed, sy_duration)[i])

(* C10 as amended: candidate selection through
   generate_mplayer_guesses_and_sync masks the times within 30 of the start
   or the end (the default of generate_test_times_for_user), the masking call
   of dump_frames_at_retraction_time is written with 10; every time that a
   buffer of 10 masks is masked by candidate selection, not the converse. *)
C10_SelectionBuffer30CoversDump10 ==
    SyncChosen =>
        \A i \in DOMAIN sy_masked :
            LET g == SyncGuessed[i]
            IN  /\ IsNaN(sy_masked[i]) <=>
                      \/ IsNaN(g)
                      \/ RLt(g, R(30))
                      \/ RLt(RSub(sy_duration, R(30)), g)
                /\ ~IsNaN(sy_masked[i]) => sy_masked[i] = g
                /\ IsNaN(DumpMasked(SyncGuessed, sy_duration)[i])
                      => IsNaN(sy_masked[i])

\* candidate selection masked a time that a buffer of 10 keeps, masked one
\* that a buffer of 10 masks too, and kept one
C10_Witness ==
    /\ SyncChosen
    /\ \E i, j, k \in DOMAIN sy_masked :
          /\ IsNaN(sy_masked[i])
          /\ ~IsNaN(DumpMasked(SyncGuessed, sy_duration)[i])
          /\ ~IsNaN(SyncGuessed[j])
          /\ IsNaN(DumpMasked(SyncGuessed, sy_duration)[j])
          /\ IsNaN(sy_masked[j])
          /\ ~IsNaN(sy_masked[k])

-----------------------------------------------------------------------------
\* parse_video_filenames has been called and is over
Parsed == sr_pc \in {"matching", "returned", "raised"}

\* ... by raising exc
ParseRaised(exc) ==
    sr_pc = "raised" /\ sr_error = <<"parse_video_filenames", exc>>

ParseReturned == Parsed /\ ~(\E exc \in {"ValueError", "AttributeError"} : ParseRaised(exc))

\* the filenames of the cache that the listing does not hold
Absent ==
    {sr_cache.rows[i].filename : i \in 1..Len(sr_cache.rows)}
        \ {FileName(sr_video_files[i]) : i \in 1..Len(sr_video_files)}

(* C15: with a cache that names a file the listing does not hold,
   parse_video_filenames raises ValueError, having probed no file and
   returning no records. *)
C15_StaleCacheRaisesAtOnce ==
    (Parsed /\ sr_cache.given /\ Absent # {}) =>
        /\ ParseRaised("ValueError")
        /\ sr_probed = <<>>
        /\ sr_video_df.rows = <<>>

\* a call with the records of the listing and of a file that is gone,
\* which has raised
C15_Witness ==
    /\ sr_cache.given /\ Absent # {}
    /\ Len(sr_cache.rows) >= 2
    /\ ParseRaised("ValueError")

-----------------------------------------------------------------------------
\* the files of the listing whose names match the video pattern
Matching == {i \in 1..Len(sr_video_files) : sr_video_files[i].date # 0}

\* row r is the whole record of file f: end time from the name, start time
\* the end time less the probed duration, or the two absent after a failed
\* probe
RecordOf(r, f) ==
    /\ r.filename = <<f.stem, f.date, f.clock>>
    /\ r.rig = f.stem
    /\ r.dt_end = Strptime(f.date, f.clock)
    /\ IF f.probe = <<>>
       THEN IsNaN(r.dt_start) /\ IsNaN(r.duration)
       ELSE /\ r.duration = R(f.probe[1] * 3600 + f.probe[2] * 60 + f.probe[3])
            /\ RLe(R(0), r.duration)
            /\ r.dt_start = RSub(r.dt_end, r.duration)

\* the result is a table of named columns
NamedRows == IF sr_video_df.cols = "named" THEN sr_video_df.rows ELSE <<>>

(* C16: with a cache whose files are all in the listing,
   parse_video_filenames probes no cached file and returns a table of
   records (columns filename, rig, dt_start, dt_end, duration) holding each
   cached record unchanged and one record for each newly probed file, and
   nothing else. *)
C16_MergeIsAdditive ==
    (Parsed /\ sr_cache.given /\ Absent = {}) =>
        /\ ParseReturned
        /\ \A k \in 1..Len(sr_probed) :
              \A c \in 1..Len(sr_cache.rows) : sr_probed[k] # sr_cache.rows[c].filename
        /\ sr_video_df.cols = "named"
        /\ Len(NamedRows) = Len(sr_cache.rows) + Len(sr_probed)
        /\ \A c \in 1..Len(sr_cache.rows) :
              \E j \in 1..Len(NamedRows) : NamedRows[j] = sr_cache.rows[c]
        /\ \A k \in 1..Len(sr_probed) :
              \E j \in 1..Len(NamedRows) : NamedRows[j].filename = sr_probed[k]

(* C17: without a cache parse_video_filenames raises nothing and returns
   one record for each file of the listing whose name matches the pattern,
   with dt_end parsed from the name and, after a successful probe,
   duration >= 0 and dt_start = dt_end - duration. *)
C17_NoCacheIsFine ==
    (Parsed /\ ~sr_cache.given) =>
        /\ ParseReturned
        /\ Len(NamedRows) = Cardinality(Matching)
        /\ \A i \in Matching :
              \E j \in 1..Len(NamedRows) : RecordOf(NamedRows[j], sr_video_files[i])

-----------------------------------------------------------------------------
(* C19: in the result of search_for_behavior_and_video_files every
   behavior record has best_video_index # -1 exactly when
   best_video_overlap > 0, and then the index is that of a video record of
   the same rig that has a start and an end time, and the overlap is no
   longer than the behavior session or the video. *)
C19_MatchIsWellFormed ==
    sr_pc = "returned" =>
        \A i \in 1..Len(sr_behavior) :
            LET b == sr_behavior[i]
                v == sr_video_df.rows[b.best_video_index]
            IN  /\ (b.best_video_index # NoMatch) <=> RLt(R(0), b.best_video_overlap)
                /\ b.best_video_index # NoMatch =>
                      /\ b.best_video_index \in 1..Len(sr_video_df.rows)
                      /\ v.rig = b.rig
                      /\ ~IsNaN(v.dt_start) /\ ~IsNaN(v.dt_end)
                      /\ RLe(b.best_video_overlap, RSub(b.dt_end, b.dt_start))
                      /\ RLe(b.best_video_overlap, RSub(v.dt_end, v.dt_start))

\* a result with a matched record and an unmatched one, over a video table
\* that holds a record without a start time for the rig of the matched one
C19_Witness ==
    /\ sr_pc = "returned"
    /\ \E i, j \in 1..Len(sr_behavior) :
          /\ sr_behavior[i].best_video_index # NoMatch
          /\ sr_behavior[j].best_video_index = NoMatch
          /\ \E k \in 1..Len(sr_video_df.rows) :
                /\ sr_video_df.rows[k].rig = sr_behavior[i].rig
                /\ IsNaN(sr_video_df.rows[k].dt_start)

-----------------------------------------------------------------------------
\* what the mouse names of the model's files are to become: upcased, then
\* KF13A -> KF13 and AM03A -> AM03
Normalized ==
    {<<<<"k", "f", "1", "3", "a">>, <<"K", "F", "1", "3">>>>,
     <<<<"K", "F", "1", "3", "A">>, <<"K", "F", "1", "3">>>>,
     <<<<"K", "F", "1", "3">>, <<"K", "F", "1", "3">>>>,
     <<<<"K", "f", "1", "3", "a">>, <<"K", "F", "1", "3">>>>,
     <<<<"a", "m", "0", "3", "a">>, <<"A", "M", "0", "3">>>>,
     <<<<"k", "m", "1", "4">>, <<"K", "M", "1", "4">>>>,
     <<<<"A", "M", "0", "5", "A">>, <<"A", "M", "0", "5", "A">>>>,
     <<<<"z", "z", "9", "9">>, <<"Z", "Z", "9", "9">>>>}

\* the positions of the files that are to be kept, with the name each is
\* kept under
Kept ==
    {<<i, n[2]>> : i \in 1..Len(pb_files), n \in Normalized} \cap
    {x \in (1..Len(pb_files)) \X mice :
        /\ pb_files[x[1]].base = "ardulines"
        /\ <<pb_files[x[1]].mouse, x[2]>> \in Normalized}

(* C14: parse_behavior_filenames with clean=True returns, in the order of
   the files, exactly one record for each file whose name matches the
   pattern and whose mouse name, upcased and then passed through the alias
   table, is in the list of mice; the record carries that name (kf13a is
   kept as KF13); files of other names are skipped without error. *)
C14_CleanNormalizesAndFilters ==
    (pb_pc = "returned" /\ pb_clean) =>
        /\ \A j \in 1..Len(pb_df) : pb_df[j].mouse \in mice
        /\ Len(pb_df) = Cardinality(Kept)
        /\ \A x \in Kept :
              \E j \in 1..Len(pb_df) :
                  /\ pb_df[j].filename = pb_files[x[1]]
                  /\ pb_df[j].mouse = x[2]
                  /\ j = Cardinality({y \in Kept : y[1] <= x[1]})

\* a cleaned result that kept kf13a as KF13, with a dropped mouse and a file
\* of another name in the listing
C14_Witness ==
    /\ pb_pc = "returned" /\ pb_clean
    /\ \E j \in 1..Len(pb_df) :
          /\ pb_df[j].filename.mouse = <<"k", "f", "1", "3", "a">>
          /\ pb_df[j].mouse = <<"K", "F", "1", "3">>
    /\ \E i \in 1..Len(pb_files) : pb_files[i].base = "notes"
    /\ \E i \in 1..Len(pb_files) : pb_files[i].mouse = <<"z", "z", "9", "9">>

-----------------------------------------------------------------------------
\* the subprocesses started and not yet waited for after the first k calls
Held(k) ==
    Cardinality({i \in 1..k : v_log[i][1] = "Popen"})
        - Cardinality({i \in 1..k : v_log[i][1] = "communicate"})

\* the calls made since ffmpeg was started
SinceSpawn ==
    LET at == CHOOSE i \in 1..Len(v_log) : v_log[i] = <<"Popen", "ffmpeg">>
    IN  SubSeq(v_log, at + 1, Len(v_log))

Spawned == \E i \in 1..Len(v_log) : v_log[i] = <<"Popen", "ffmpeg">>

(* C11: in get_frame and process_chunks_of_video, once ffmpeg has been
   started, the function returns or lets an exception out (full read,
   short read, failed assertion, error while reading) only after
   terminate and then communicate have been called on it; and no more
   than one subprocess is held at any time. *)
C11_PipeReleasedOnEveryExit ==
    v_op \in {"get_frame", "process_chunks_of_video"} =>
        /\ \A k \in 0..Len(v_log) : Held(k) <= 1
        /\ Cardinality(v_live) <= 1
        /\ (Spawned /\ v_pc \in {"returned", "raised"}) =>
              /\ SinceSpawn = <<<<"terminate", "ffmpeg">>, <<"communicate", "ffmpeg">>>>
              /\ v_live = {}

\* process_chunks_of_video left by the assertion of line 214, after a probe
\* and a chunk read in full, the pipe released
C11_Witness ==
    /\ v_op = "process_chunks_of_video"
    /\ v_pc = "raised" /\ v_exc = "AssertionError"
    /\ v_log[1] = <<"Popen", "ffprobe">>
    /\ v_frames_read > 0
    /\ Spawned /\ v_live = {}

(* C12: get_frame on a pipe that gives fewer than width*height bytes (a
   frametime beyond the end of the file) prints a warning and returns
   frame = None with stdout and stderr, raising nothing; frame_dump raises
   nothing when the ffmpeg it ran reports no problem. *)
C12_BeyondTheEndIsNoError ==
    /\ (v_op = "get_frame" /\ v_pc \in {"returned", "raised"} /\ v_size # <<>>
            /\ v_stream < v_size[1] * v_size[2] /\ v_exc # "IOError") =>
          /\ v_pc = "returned" /\ v_exc = ""
          /\ v_result = [frame |-> "None", stdout |-> "stdout", stderr |-> "stderr"]
          /\ \E i \in 1..Len(v_printed) : v_printed[i] = "warning: cannot get frame"
    /\ (v_op = "frame_dump" /\ v_pc \in {"returned", "raised"} /\ v_status = 0
            /\ \E i \in 1..Len(v_log) : v_log[i] = <<"check_output", "ffmpeg">>) =>
          v_pc = "returned" /\ v_exc = ""

\* get_frame returned without a frame from an empty pipe
C12_Witness ==
    /\ v_op = "get_frame" /\ v_pc = "returned"
    /\ v_stream = 0 /\ v_result.frame = "None"

-----------------------------------------------------------------------------
\* process_chunks_of_video is over, on a stream of whole frames (of the
\* width and height in use), with a frame function, no read having raised
ChunksOver ==
    /\ v_op = "process_chunks_of_video"
    /\ v_pc \in {"returned", "raised"}
    /\ v_args.func # "None"
    /\ v_size # <<>>
    /\ v_stream % (v_size[1] * v_size[2]) = 0
    /\ v_exc # "IOError"

\* A, the whole frames of the stream
Available == v_stream \div (v_size[1] * v_size[2])

\* the frames of a result, in its order
Frames(res) == IF res.type = "list" THEN Flat(res.items) ELSE res.items

(* C18: process_chunks_of_video on a stream of A whole frames, for any
   n_frames >= 0 and frame_chunk_sz >= 1, stops after chunks of at most
   frame_chunk_sz frames, with frames_read <= n_frames, and returns the
   results of the first min(n_frames, A) frames in stream order; with
   n_frames > A it prints a warning and returns, it does not raise. *)
C18_ReturnsFirstFrames ==
    /\ v_op = "process_chunks_of_video" =>
          /\ v_frames_read <= v_args.n_frames
          /\ \A c \in 1..Len(v_res_l) : Len(v_res_l[c]) <= v_args.frame_chunk_sz
    /\ ChunksOver =>
          LET m == IF v_args.n_frames < Available THEN v_args.n_frames ELSE Available
          IN  /\ v_pc = "returned"
              /\ Frames(v_result) = [k \in 1..m |-> k]
              /\ v_args.n_frames > Available =>
                    \E i \in 1..Len(v_printed) : v_printed[i] = "warning: ran out of frames"

-----------------------------------------------------------------------------
\* a function of video.py has run ffprobe on a file with invalid data, and
\* is over
ProbedInvalid ==
    /\ v_pc \in {"returned", "raised"}
    /\ v_probe.invalid
    /\ \E i \in 1..Len(v_log) : v_log[i] = <<"Popen", "ffprobe">>

\* ... and has raised ValueError, not OutOfFrames, without starting ffmpeg
IntegrityError ==
    /\ v_pc = "raised"
    /\ v_exc = "ValueError" /\ v_exc # "OutOfFrames"
    /\ ~Spawned

\* the files of the listing that parse_video_filenames ran ffprobe on and
\* ffprobe found invalid data in
ParsedInvalid ==
    {i \in 1..Len(sr_video_files) :
        /\ sr_video_files[i].probe = <<>>
        /\ \E k \in 1..Len(sr_probed) :
              sr_probed[k] = <<sr_video_files[i].stem, sr_video_files[i].date,
                               sr_video_files[i].clock>>}

\* the records parse_video_filenames made in this call, as they lie in the
\* table it returned
NewRecords ==
    IF sr_video_df.cols = "numbered"
    THEN {sr_video_df.rows[k][1][1] :
            k \in {k \in 1..Len(sr_video_df.rows) : sr_video_df.rows[k][1] # <<>>}}
    ELSE {sr_video_df.rows[k] : k \in 1..Len(sr_video_df.rows)}

(* C13 as stated: every operation that probes a file in which ffprobe
   finds invalid data - get_video_aspect, get_video_duration, get_frame,
   process_chunks_of_video without explicit geometry, parse_video_filenames -
   raises a data-integrity error that is not OutOfFrames, and starts no
   extraction subprocess for the file. *)
C13_InvalidDataRaisesEverywhere ==
    /\ ProbedInvalid => IntegrityError
    /\ (Parsed /\ ParsedInvalid # {}) => ParseRaised("ValueError")

(* C13 as amended: get_video_aspect, get_video_duration, get_frame and
   process_chunks_of_video without explicit geometry raise ValueError (not
   OutOfFrames) and start no ffmpeg; parse_video_filenames raises nothing
   for such a file: it keeps a record of the file with its name, rig and
   end time, without start time and duration, and goes on. *)
C13_InvalidDataRaisesInVideoOnly ==
    /\ ProbedInvalid => IntegrityError
    /\ (Parsed /\ ParsedInvalid # {}) =>
          /\ ParseReturned
          /\ \A i \in ParsedInvalid :
                \E r \in NewRecords :
                    /\ r.filename = <<sr_video_files[i].stem, sr_video_files[i].date,
                                      sr_video_files[i].clock>>
                    /\ r.rig = sr_video_files[i].stem
                    /\ r.dt_end = Strptime(sr_video_files[i].date, sr_video_files[i].clock)
                    /\ IsNaN(r.dt_start) /\ IsNaN(r.duration)

\* get_frame on a file with invalid data, over
C13_Witness ==
    /\ v_op = "get_frame"
    /\ ProbedInvalid /\ IntegrityError

-----------------------------------------------------------------------------
\* the times dump_frames_at_retraction_time was entered for session name
Dumps(name) ==
    Cardinality({e \in 1..Len(cd_events) :
                    cd_events[e].name = name /\ cd_events[e].dumped})

(* C20: over any runs of cached_dump_frames_at_retraction_times on one
   frame_dir, dump_frames_at_retraction_time is entered at most once for a
   session; a row reached is dumped exactly when its output directory does
   not exist then, and the directory is made before the dump starts, so
   that a session whose dump raised is skipped by the later runs. *)
C20_DumpedAtMostOnce ==
    /\ \A name \in Sessions : Dumps(name) <= 1
    /\ \A e \in 1..Len(cd_events) :
          /\ cd_events[e].dumped <=> ~cd_events[e].existed
          /\ cd_events[e].dumped => cd_events[e].made
          /\ \A g \in 1..Len(cd_events) :
                (g > e /\ cd_events[g].name = cd_events[e].name) =>
                    /\ cd_events[g].existed
                    /\ ~cd_events[g].dumped

\* a session whose dump raised in one run, skipped in a later run
C20_Witness ==
    \E e, g \in 1..Len(cd_events) :
        /\ cd_events[e].name = cd_events[g].name
        /\ cd_events[e].dumped
        /\ cd_events[g].run > cd_events[e].run
        /\ cd_events[g].existed /\ ~cd_events[g].dumped

====
